---- MODULE Spec2Model ----
(***************************************************************************)
(* A model of walrus's function emission:                                  *)
(*   - the body emitter of src/module/functions/local_function/emit.rs,    *)
(*     a recursive visitor, modelled as a machine whose call stack is      *)
(*     explicit (specification Spec);                                      *)
(*   - the function arena and the function/code section emission of        *)
(*     src/module/functions/mod.rs, with the parallel per-function emit    *)
(*     (specification SpecModule);                                         *)
(*   - the parsing of the function and code sections into the arena, with  *)
(*     the parallel per-function parse (specification SpecParse);          *)
(*   - the lookup of a function by its name (specification SpecNames).     *)
(***************************************************************************)
EXTENDS Integers, Sequences, FiniteSets, TLC

VARIABLES
    func,        \* Emit::func: the body being emitted, an arena ExprId -> Expr
    emit,        \* the Emit visitor: id, blocks, encoder, its call stack, outcome
    arena,       \* ModuleFunctions::arena: the functions of the module
    phase,       \* where the module is: editing, or a stage of emission
    cx,          \* the EmitContext: indices, section payloads, local maps
    functions,   \* the sorted Vec the code section emit iterates over
    jobs,        \* the parallel map: per entry of functions, its job's state
    module,      \* Module::config and Module::locals, the locals in spans of one type
    indices_to_ids, \* IndicesToIds: the ids behind the indices of the input
    call,        \* the frame of the call in progress: its arguments and locals
    result       \* what the last call returned

vars == <<func, emit, arena, phase, cx, functions, jobs, module, indices_to_ids,
         call, result>>

\* the state of the parser and of the calls on the arena
ParserVars == <<module, indices_to_ids, call, result>>

(***************************************************************************)
(* Bounds of the model.                                                    *)
(***************************************************************************)
\* expressions in a body generated over all variants
MaxExprs == 3
\* blocks nested around a branch
MaxDepth == 2
\* expressions in an arm of an if/else
MaxArm == 2
\* slots of the function arena
MaxFuncs == 3

(***************************************************************************)
(* Small helpers.                                                          *)
(***************************************************************************)
Max(S) == CHOOSE x \in S : \A y \in S : y <= x

RECURSIVE Flatten(_)
Flatten(ss) == IF ss = <<>> THEN <<>> ELSE Head(ss) \o Flatten(Tail(ss))

Range(s) == {s[i] : i \in DOMAIN s}

(***************************************************************************)
(* The encoder primitive (crate::encode::Encoder): append-only.            *)
(***************************************************************************)
RECURSIVE Leb128U(_)
\* Encoder::u32 / Encoder::usize: unsigned LEB128
Leb128U(n) ==
    IF n < 128 THEN <<n>>
    ELSE <<(n % 128) + 128>> \o Leb128U(n \div 128)

RECURSIVE Leb128S(_)
\* Encoder::i32: signed LEB128
Leb128S(n) ==
    LET b == n % 128
        rest == n \div 128
    IN IF (rest = 0 /\ b < 64) \/ (rest = -1 /\ b >= 64) THEN <<b>>
       ELSE <<b + 128>> \o Leb128S(rest)

\* ValType::emit: the encoding byte of a value type
ValTypeByte(t) ==
    CASE t = "I32" -> 127
      [] t = "I64" -> 126
      [] t = "F32" -> 125
      [] t = "F64" -> 124
      [] t = "V128" -> 123

\* Value::emit of an i32 constant: i32.const and the signed value
ValueEmit(value) == <<65>> \o Leb128S(value)

(***************************************************************************)
(* The IR (crate::ir), as far as the emitter reads it.  A body is an arena *)
(* ExprId -> Expr; an Expr is a record with the variant in "tag" and the   *)
(* variant's fields under the names emit.rs reads them by.                 *)
(***************************************************************************)
Const(value) == [tag |-> "Const", value |-> value]
Block(kind, results, exprs) ==
    [tag |-> "Block", kind |-> kind, results |-> results, exprs |-> exprs]
IfElse(condition, consequent, alternative) ==
    [tag |-> "IfElse", condition |-> condition, consequent |-> consequent,
     alternative |-> alternative]
Br(block, args) == [tag |-> "Br", block |-> block, args |-> args]
BrIf(block, args, condition) ==
    [tag |-> "BrIf", block |-> block, args |-> args, condition |-> condition]
BrTable(which, blocks, default, args) ==
    [tag |-> "BrTable", which |-> which, blocks |-> blocks,
     default |-> default, args |-> args]
Drop(expr) == [tag |-> "Drop", expr |-> expr]
Return(values) == [tag |-> "Return", values |-> values]
Binop(op, lhs, rhs) == [tag |-> "Binop", op |-> op, lhs |-> lhs, rhs |-> rhs]
LocalGet(local) == [tag |-> "LocalGet", local |-> local]
Unreachable == [tag |-> "Unreachable"]
MemorySize(memory) == [tag |-> "MemorySize", memory |-> memory]
MemArg(align, offset) == [align |-> align, offset |-> offset]
Load(kind, memory, address, arg) ==
    [tag |-> "Load", kind |-> kind, memory |-> memory, address |-> address,
     arg |-> arg]
Store(kind, memory, address, value, arg) ==
    [tag |-> "Store", kind |-> kind, memory |-> memory, address |-> address,
     value |-> value, arg |-> arg]
AtomicRmw(op, width, memory, address, value, arg) ==
    [tag |-> "AtomicRmw", op |-> op, width |-> width, memory |-> memory,
     address |-> address, value |-> value, arg |-> arg]
Cmpxchg(width, memory, address, expected, replacement, arg) ==
    [tag |-> "Cmpxchg", width |-> width, memory |-> memory, address |-> address,
     expected |-> expected, replacement |-> replacement, arg |-> arg]
AtomicNotify(memory, address, count, arg) ==
    [tag |-> "AtomicNotify", memory |-> memory, address |-> address,
     count |-> count, arg |-> arg]
AtomicWait(sixty_four, memory, address, expected, timeout, arg) ==
    [tag |-> "AtomicWait", sixty_four |-> sixty_four, memory |-> memory,
     address |-> address, expected |-> expected, timeout |-> timeout, arg |-> arg]
Call(f, args) == [tag |-> "Call", func |-> f, args |-> args]
MemoryGrow(memory, pages) == [tag |-> "MemoryGrow", memory |-> memory, pages |-> pages]
MemoryInit(memory, data, memory_offset, data_offset, len) ==
    [tag |-> "MemoryInit", memory |-> memory, data |-> data,
     memory_offset |-> memory_offset, data_offset |-> data_offset, len |-> len]
MemoryCopy(src, dst, dst_offset, src_offset, len) ==
    [tag |-> "MemoryCopy", src |-> src, dst |-> dst, dst_offset |-> dst_offset,
     src_offset |-> src_offset, len |-> len]
MemoryFill(memory, offset, value, len) ==
    [tag |-> "MemoryFill", memory |-> memory, offset |-> offset, value |-> value,
     len |-> len]
WithSideEffects(before, value, after) ==
    [tag |-> "WithSideEffects", before |-> before, value |-> value, after |-> after]
Select(condition, consequent, alternative) ==
    [tag |-> "Select", condition |-> condition, consequent |-> consequent,
     alternative |-> alternative]
CallIndirect(ty, table, f, args) ==
    [tag |-> "CallIndirect", ty |-> ty, table |-> table, func |-> f, args |-> args]

\* LocalFunction::entry_block: the root FunctionEntry block of the arena
entry_block(f) == 1

\* LocalFunction::block: the Block a BlockId names
block(f, id) == f[id]

(***************************************************************************)
(* The panics of the emitter: the message text and the values formatted    *)
(* into it.                                                                *)
(***************************************************************************)
BadBranchMsg ==
    "attempt to branch to invalid block; bad transformation pass introduced bad branching?"
MultiValueMsg ==
    "multiple return values not yet supported; write a transformation to rewrite them into single value returns"
AssertEqMsg == "assertion failed: (left == right)"
NoEntryMsg == "no entry found for key"
NoPanic == [text |-> "", args |-> <<>>]

(***************************************************************************)
(* The Emit visitor.  Its state is the struct's fields plus the call      *)
(* stack of the recursion: a sequence of what is left to do, innermost    *)
(* first.  A panic stops the visitor where it is.                          *)
(***************************************************************************)
Visit(id) == [op |-> "visit", expr |-> id]
Raw(bytes) == [op |-> "raw", bytes |-> bytes]
Restore(old) == [op |-> "restore", old |-> old]
IfOpen(consequent) == [op |-> "if", consequent |-> consequent]
EndBlock(kind) == [op |-> "end_block", kind |-> kind]
Branch(opcode, b) == [op |-> "br", opcode |-> opcode, block |-> b]
BranchTable(blocks, default) ==
    [op |-> "br_table", blocks |-> blocks, default |-> default]
MemArgOf(memory, arg) == [op |-> "memarg", memory |-> memory, arg |-> arg]
MemoryIndex(memory) == [op |-> "memory_index", memory |-> memory]

VisitAll(ids) == [i \in 1..Len(ids) |-> Visit(ids[i])]

\* Encoder::byte / raw / u32 on the visitor's encoder
Write(s, bytes) ==
    IF s.status = "running" THEN [s EXCEPT !.encoder = @ \o bytes] ELSE s

Panic(s, text, args) ==
    IF s.status = "running"
    THEN [s EXCEPT !.status = "panicked", !.panic = [text |-> text, args |-> args]]
    ELSE s

\* the statements of a match arm that follow its first recursive visit, and the
\* closing "self.id = old" of visit_expr_id
Then(s, old, tasks) ==
    IF s.status = "running"
    THEN [s EXCEPT !.stack = tasks \o <<Restore(old)>> \o @]
    ELSE s

\* branch_target without the rev(): the position counted from the bottom
branch_target_from_bottom(blocks, b) ==
    LET hits == {i \in DOMAIN blocks : blocks[i] = b}
    IN IF hits = {} THEN <<>> ELSE <<Max(hits) - 1>>

\* Emit::branch_target: the position of block from the top of the stack of open
\* blocks; <<>> when it is not on the stack (position() gives None)
branch_target(blocks, b) ==
    LET hits == {i \in DOMAIN blocks : blocks[i] = b}
    IN IF hits = {} THEN <<>> ELSE <<Len(blocks) - Max(hits)>>

\* block_type that writes the empty block type whatever the results
block_type_always_empty(s, ty) == Write(s, <<64>>)

\* block_type that encodes the first result of a longer list instead of failing
block_type_first_result(s, ty) ==
    IF Len(ty) = 0 THEN Write(s, <<64>>) ELSE Write(s, <<ValTypeByte(ty[1])>>)

\* Emit::block_type
block_type(s, ty) ==
    CASE Len(ty) = 0 -> Write(s, <<64>>)
      [] Len(ty) = 1 -> Write(s, <<ValTypeByte(ty[1])>>)
      [] OTHER -> Panic(s, MultiValueMsg, <<>>)

\* visit_block that opens a Loop with the block opcode
visit_block_one_opcode(s, old, e) ==
    LET pushed == [s EXCEPT !.blocks = Append(@, s.id)]
        opened ==
            IF e.kind \in {"Block", "Loop"}
            THEN block_type(Write(pushed, <<2>>), e.results)
            ELSE pushed
    IN Then(opened, old, VisitAll(e.exprs) \o <<EndBlock(e.kind)>>)

\* visit_block that takes the children out of the block it visits
visit_block_taking_children(s, old, e) ==
    LET pushed == [s EXCEPT !.blocks = Append(@, s.id), !.func[s.id].exprs = <<>>]
        opened ==
            CASE e.kind = "Block" -> block_type(Write(pushed, <<2>>), e.results)
              [] e.kind = "Loop" -> block_type(Write(pushed, <<3>>), e.results)
              [] e.kind \in {"FunctionEntry", "IfElse"} -> pushed
    IN Then(opened, old, VisitAll(e.exprs) \o <<EndBlock(e.kind)>>)

\* Emit::visit_block, up to its loop over the children
visit_block(s, old, e) ==
    LET pushed == [s EXCEPT !.blocks = Append(@, s.id)]
        opened ==
            CASE e.kind = "Block" -> block_type(Write(pushed, <<2>>), e.results)
              [] e.kind = "Loop" -> block_type(Write(pushed, <<3>>), e.results)
              [] e.kind \in {"FunctionEntry", "IfElse"} -> pushed
    IN Then(opened, old, VisitAll(e.exprs) \o <<EndBlock(e.kind)>>)

\* visit_block that writes no end for the FunctionEntry block
visit_block_end_no_outer_end(s, kind) ==
    LET ended == IF kind \in {"Block", "Loop"} THEN Write(s, <<11>>) ELSE s
    IN [ended EXCEPT !.blocks = SubSeq(@, 1, Len(@) - 1)]

\* visit_block that leaves the block on the stack of open blocks
visit_block_end_no_pop(s, kind) ==
    CASE kind \in {"Block", "Loop", "FunctionEntry"} -> Write(s, <<11>>)
      [] kind = "IfElse" -> s

\* Emit::visit_block, after its loop over the children
visit_block_end(s, kind) ==
    LET ended ==
            CASE kind \in {"Block", "Loop", "FunctionEntry"} -> Write(s, <<11>>)
              [] kind = "IfElse" -> s
    IN [ended EXCEPT !.blocks = SubSeq(@, 1, Len(@) - 1)]

\* visit_if_else that leaves out the else of an empty alternative
visit_if_else_skip_empty_else(s, old, e) ==
    Then(s, old, <<Visit(e.condition), IfOpen(e.consequent), Visit(e.consequent)>>
                 \o (IF block(s.func, e.alternative).exprs = <<>> THEN <<>>
                     ELSE <<Raw(<<5>>), Visit(e.alternative)>>)
                 \o <<Raw(<<11>>)>>)

\* visit_if_else that does not close the if
visit_if_else_no_end(s, old, e) ==
    Then(s, old, <<Visit(e.condition), IfOpen(e.consequent), Visit(e.consequent),
                   Raw(<<5>>), Visit(e.alternative)>>)

\* Emit::visit_if_else: what follows the visit of the condition
visit_if_else(s, old, e) ==
    Then(s, old, <<Visit(e.condition), IfOpen(e.consequent), Visit(e.consequent),
                   Raw(<<5>>), Visit(e.alternative), Raw(<<11>>)>>)

\* Emit::visit_if_else: the if opcode and its block type
visit_if_else_open(s, consequent) ==
    block_type(Write(s, <<4>>), block(s.func, consequent).results)

\* Br and BrIf of Emit::visit_expr_id: the target, then the opcode and the depth
visit_br(s, opcode, b) ==
    LET target == branch_target(s.blocks, b)
    IN IF target = <<>> THEN Panic(s, BadBranchMsg, <<>>)
       ELSE Write(s, <<opcode>> \o Leb128U(target[1]))

RECURSIVE br_table_targets(_, _)
\* Emit::visit_br_table: one depth per entry, in order
br_table_targets(s, bs) ==
    IF bs = <<>> \/ s.status # "running" THEN s
    ELSE LET target == branch_target(s.blocks, Head(bs))
         IN IF target = <<>> THEN Panic(s, BadBranchMsg, <<>>)
            ELSE br_table_targets(Write(s, Leb128U(target[1])), Tail(bs))

\* Emit::visit_br_table: what follows the visits of the operands
visit_br_table(s, bs, default) ==
    br_table_targets(Write(s, <<14>> \o Leb128U(Len(bs))), bs \o <<default>>)

RECURSIVE trailing_zeros(_)
\* u32::trailing_zeros
trailing_zeros(n) ==
    IF n = 0 THEN 32
    ELSE IF n % 2 = 1 THEN 0 ELSE 1 + trailing_zeros(n \div 2)

\* IdsToIndices::get_memory_index
get_memory_index(indices, id) == indices.memories[id]

\* IdsToIndices::get_data_index
get_data_index(indices, id) == indices.data[id]

\* the memory index of a bulk memory operation written without the assertion
memory_index_unchecked(s, id) == Write(s, Leb128U(get_memory_index(s.indices, id)))

\* MemoryInit, MemoryCopy and MemoryFill of Emit::visit_expr_id: the index of a
\* memory is asserted to be 0, then written
memory_index(s, id) ==
    LET idx == get_memory_index(s.indices, id)
    IN IF idx # 0 THEN Panic(s, AssertEqMsg, <<idx, 0>>)
       ELSE Write(s, Leb128U(idx))

\* memarg writing the alignment as it is stored, not its exponent
memarg_writes_alignment(s, id, arg) ==
    LET idx == get_memory_index(s.indices, id)
    IN IF idx # 0 THEN Panic(s, AssertEqMsg, <<idx, 0>>)
       ELSE Write(s, Leb128U(arg.align) \o Leb128U(arg.offset))

\* Emit::memarg
memarg(s, id, arg) ==
    LET idx == get_memory_index(s.indices, id)
    IN IF idx # 0 THEN Panic(s, AssertEqMsg, <<idx, 0>>)
       ELSE Write(s, Leb128U(trailing_zeros(arg.align)) \o Leb128U(arg.offset))

\* the opcode of a Load, by its kind
LoadOpcode(kind) ==
    CASE kind = "I32" -> <<40>>
      [] kind = "I64" -> <<41>>
      [] kind = "I32Atomic" -> <<254, 16>>

\* the opcode of a Binop, by its operator
BinopOpcode(op) ==
    CASE op = "I32Add" -> <<106>>
      [] op = "I32Sub" -> <<107>>

\* the operands of an expression, last visited first
operands_reversed(e) ==
    CASE e.tag = "Binop" -> <<e.rhs, e.lhs>>
      [] e.tag = "Store" -> <<e.value, e.address>>
      [] e.tag = "Call" -> [i \in 1..Len(e.args) |-> e.args[Len(e.args) + 1 - i]]
      [] e.tag = "CallIndirect" ->
            <<e.func>> \o [i \in 1..Len(e.args) |-> e.args[Len(e.args) + 1 - i]]
      [] e.tag = "BrIf" ->
            <<e.condition>> \o [i \in 1..Len(e.args) |-> e.args[Len(e.args) + 1 - i]]
      [] e.tag = "Return" -> [i \in 1..Len(e.values) |-> e.values[Len(e.values) + 1 - i]]

\* the operands of an expression, in the order its match arm visits them
operands(e) ==
    CASE e.tag = "Binop" -> <<e.lhs, e.rhs>>
      [] e.tag = "Store" -> <<e.address, e.value>>
      [] e.tag = "Call" -> e.args
      [] e.tag = "CallIndirect" -> e.args \o <<e.func>>
      [] e.tag = "BrIf" -> e.args \o <<e.condition>>
      [] e.tag = "Return" -> e.values

\* the opcode of a Store, by its kind
StoreOpcode(kind) ==
    CASE kind = "I32" -> <<54>>
      [] kind = "I64" -> <<55>>
      [] kind = "I32Atomic" -> <<254, 23>>
      [] kind = "I32_8" -> <<58>>

\* the opcode of an AtomicRmw, by its operator and width
RmwOpcode(op, width) ==
    CASE op = "Add" /\ width = "I32" -> <<254, 30>>
      [] op = "Add" /\ width = "I64" -> <<254, 31>>
      [] op = "Sub" /\ width = "I32" -> <<254, 37>>
      [] op = "Xchg" /\ width = "I64_32" -> <<254, 71>>

\* the opcode of a Cmpxchg, by its width
CmpxchgOpcode(width) ==
    CASE width = "I32" -> <<254, 72>>
      [] width = "I64" -> <<254, 73>>
      [] width = "I64_32" -> <<254, 78>>

\* IdsToIndices::get_type_index
get_type_index(indices, ty) == indices.types[ty]

\* IdsToIndices::get_func_index
get_func_index(indices, id) ==
    (CHOOSE k \in DOMAIN indices.funcs : indices.funcs[k] = id) - 1

\* IdsToIndices::get_table_index
get_table_index(indices, id) == indices.tables[id]

\* WithSideEffects with the value visited before the expressions around it
visit_with_side_effects_value_first(s, old, e) ==
    Then(s, old, <<Visit(e.value)>> \o VisitAll(e.before) \o VisitAll(e.after))

\* the WithSideEffects arm of Emit::visit_expr_id
visit_with_side_effects(s, old, e) ==
    Then(s, old, VisitAll(e.before) \o <<Visit(e.value)>> \o VisitAll(e.after))

\* Select with the operands visited as they are declared
visit_select_condition_first(s, old, e) ==
    Then(s, old, <<Visit(e.condition), Visit(e.consequent), Visit(e.alternative),
                   Raw(<<27>>)>>)

\* the Select arm of Emit::visit_expr_id
visit_select(s, old, e) ==
    Then(s, old, <<Visit(e.alternative), Visit(e.consequent), Visit(e.condition),
                   Raw(<<27>>)>>)

\* Emit::visit_expr_id: the match on the expression, up to the first recursive
\* visit of each arm
visit_expr_id(st, id) ==
    LET e == st.func[id]
        old == st.id
        s == [st EXCEPT !.id = id]
    IN CASE e.tag = "Const" -> Then(Write(s, ValueEmit(e.value)), old, <<>>)
         [] e.tag = "Block" -> visit_block(s, old, e)
         [] e.tag = "BrTable" ->
                Then(s, old, VisitAll(e.args) \o
                             <<Visit(e.which), BranchTable(e.blocks, e.default)>>)
         [] e.tag = "IfElse" -> visit_if_else(s, old, e)
         [] e.tag = "Drop" -> Then(s, old, <<Visit(e.expr), Raw(<<26>>)>>)
         [] e.tag = "Return" -> Then(s, old, VisitAll(operands(e)) \o <<Raw(<<15>>)>>)
         [] e.tag = "MemoryGrow" ->
                Then(s, old, <<Visit(e.pages),
                               Raw(<<64>> \o Leb128U(get_memory_index(s.indices, e.memory)))>>)
         [] e.tag = "MemoryInit" ->
                Then(s, old, <<Visit(e.memory_offset), Visit(e.data_offset), Visit(e.len),
                               Raw(<<252, 8>> \o Leb128U(get_data_index(s.indices, e.data))),
                               MemoryIndex(e.memory)>>)
         [] e.tag = "MemoryCopy" ->
                Then(s, old, <<Visit(e.dst_offset), Visit(e.src_offset), Visit(e.len),
                               Raw(<<252, 10>>), MemoryIndex(e.src), MemoryIndex(e.dst)>>)
         [] e.tag = "MemoryFill" ->
                Then(s, old, <<Visit(e.offset), Visit(e.value), Visit(e.len),
                               Raw(<<252, 11>>), MemoryIndex(e.memory)>>)
         [] e.tag = "WithSideEffects" -> visit_with_side_effects(s, old, e)
         [] e.tag = "Select" -> visit_select(s, old, e)
         [] e.tag = "MemorySize" ->
                Then(Write(s, <<63>> \o Leb128U(get_memory_index(s.indices, e.memory))),
                     old, <<>>)
         [] e.tag = "Binop" ->
                Then(s, old, VisitAll(operands(e)) \o <<Raw(BinopOpcode(e.op))>>)
         [] e.tag = "Unreachable" -> Then(Write(s, <<0>>), old, <<>>)
         [] e.tag = "Br" -> Then(s, old, VisitAll(e.args) \o <<Branch(12, e.block)>>)
         [] e.tag = "BrIf" ->
                Then(s, old, VisitAll(operands(e)) \o <<Branch(13, e.block)>>)
         [] e.tag = "LocalGet" ->
                IF e.local \in DOMAIN s.local_indices
                THEN Then(Write(s, <<32>> \o Leb128U(s.local_indices[e.local])), old, <<>>)
                ELSE Panic(s, NoEntryMsg, <<>>)
         [] e.tag = "Load" ->
                Then(s, old, <<Visit(e.address), Raw(LoadOpcode(e.kind)),
                               MemArgOf(e.memory, e.arg)>>)
         [] e.tag = "Store" ->
                Then(s, old, VisitAll(operands(e)) \o
                             <<Raw(StoreOpcode(e.kind)), MemArgOf(e.memory, e.arg)>>)
         [] e.tag = "AtomicRmw" ->
                Then(s, old, <<Visit(e.address), Visit(e.value),
                               Raw(RmwOpcode(e.op, e.width)),
                               MemArgOf(e.memory, e.arg)>>)
         [] e.tag = "Cmpxchg" ->
                Then(s, old, <<Visit(e.address), Visit(e.expected),
                               Visit(e.replacement), Raw(CmpxchgOpcode(e.width)),
                               MemArgOf(e.memory, e.arg)>>)
         [] e.tag = "AtomicNotify" ->
                Then(s, old, <<Visit(e.address), Visit(e.count), Raw(<<254, 0>>),
                               MemArgOf(e.memory, e.arg)>>)
         [] e.tag = "AtomicWait" ->
                Then(s, old, <<Visit(e.address), Visit(e.expected), Visit(e.timeout),
                               Raw(<<254, IF e.sixty_four THEN 2 ELSE 1>>),
                               MemArgOf(e.memory, e.arg)>>)
         [] e.tag = "Call" ->
                Then(s, old, VisitAll(operands(e)) \o
                             <<Raw(<<16>> \o Leb128U(get_func_index(s.indices, e.func)))>>)
         [] e.tag = "CallIndirect" ->
                Then(s, old, VisitAll(operands(e)) \o
                             <<Raw(<<17>> \o Leb128U(get_type_index(s.indices, e.ty))
                                   \o Leb128U(get_table_index(s.indices, e.table)))>>)

\* one step of the visitor: the innermost pending piece of work
Step(st) ==
    LET t == Head(st.stack)
        s == [st EXCEPT !.stack = Tail(@)]
        r == CASE t.op = "visit" -> visit_expr_id(s, t.expr)
               [] t.op = "raw" -> Write(s, t.bytes)
               [] t.op = "restore" -> [s EXCEPT !.id = t.old]
               [] t.op = "if" -> visit_if_else_open(s, t.consequent)
               [] t.op = "end_block" -> visit_block_end(s, t.kind)
               [] t.op = "br" -> visit_br(s, t.opcode, t.block)
               [] t.op = "br_table" -> visit_br_table(s, t.blocks, t.default)
               [] t.op = "memarg" -> memarg(s, t.memory, t.arg)
               [] t.op = "memory_index" -> memory_index(s, t.memory)
    IN IF r.status = "running" /\ r.stack = <<>>
       THEN [r EXCEPT !.status = "done"]
       ELSE r

\* run of emit.rs: the visitor as constructed, about to visit the entry block
run(f, indices, local_indices, encoder) ==
    [func |-> f, id |-> entry_block(f), indices |-> indices,
     local_indices |-> local_indices, blocks |-> <<>>, encoder |-> encoder,
     stack |-> <<Visit(entry_block(f))>>, status |-> "running", panic |-> NoPanic]

RECURSIVE Exec(_)
\* the visitor run until it returns or panics
Exec(st) == IF st.status = "running" THEN Exec(Step(st)) ELSE st

\* LocalFunction::emit_instructions
emit_instructions(f, indices, local_indices, encoder) ==
    Exec(run(f, indices, local_indices, encoder))

(***************************************************************************)
(* The bodies the emitter is run on.  A body takes the ids 1..n in         *)
(* pre-order, the FunctionEntry block first.  Branch targets range over    *)
(* every block of the body, enclosing or not; result lists over zero, one  *)
(* and two types.                                                          *)
(***************************************************************************)
ResultLists == {<<>>, <<"I64">>, <<"I32", "I64">>}
ConstValues == {1}
Memories == {1, 2}
MemArgs == {MemArg(4, 0), MemArg(1, 200)}
\* the wire index of each memory: memory 1 is the module's first, memory 2 not
Indices == [memories |-> <<0, 1>>, funcs |-> <<1, 2>>, tables |-> <<0, 1>>,
            types |-> <<0, 1>>, data |-> <<0, 1>>]
\* the wire index of each local (local 1 is a parameter)
LocalIndices == <<0, 1>>

RECURSIVE Forest(_, _, _, _), Tree(_, _, _, _)
\* the forests over the ids lo..hi: the roots in order, and the nodes
Forest(K, n, lo, hi) ==
    IF lo > hi THEN {[roots |-> <<>>, nodes |-> <<>>]}
    ELSE UNION {{[roots |-> <<lo>> \o f.roots, nodes |-> t @@ f.nodes] :
                    t \in Tree(K, n, lo, m), f \in Forest(K, n, m + 1, hi)} :
                m \in lo..hi}

\* the trees over the ids lo..hi, rooted at lo
Tree(K, n, lo, hi) ==
    LET rest == Forest(K, n, lo + 1, hi)
        sub == IF lo < hi THEN Tree(K, n, lo + 1, hi) ELSE {}
        leaf(S) == IF lo = hi THEN {lo :> e : e \in S} ELSE {}
        on(tag, S) == IF tag \in K THEN S ELSE {}
    IN  on("Const", leaf({Const(v) : v \in ConstValues}))
        \cup on("Unreachable", leaf({Unreachable}))
        \cup on("LocalGet", leaf({LocalGet(l) : l \in DOMAIN LocalIndices}))
        \cup on("MemorySize", leaf({MemorySize(m) : m \in Memories}))
        \cup on("Block",
                {(lo :> Block(k, r, f.roots)) @@ f.nodes :
                    k \in {"Block", "Loop"}, r \in ResultLists, f \in rest})
        \cup on("Br", {(lo :> Br(b, f.roots)) @@ f.nodes : b \in 1..n, f \in rest})
        \cup on("BrIf", {(lo :> BrIf(b, <<>>, lo + 1)) @@ t : b \in 1..n, t \in sub})
        \cup on("BrTable",
                {(lo :> BrTable(lo + 1, bs, b, <<>>)) @@ t :
                    bs \in {<<>>} \cup {<<x>> : x \in 1..n}, b \in 1..n, t \in sub})
        \cup on("Drop", {(lo :> Drop(lo + 1)) @@ t : t \in sub})
        \cup on("Return", {(lo :> Return(f.roots)) @@ f.nodes : f \in rest})
        \cup on("Load",
                {(lo :> Load(k, m, lo + 1, a)) @@ t :
                    k \in {"I32", "I32Atomic"}, m \in Memories, a \in MemArgs,
                    t \in sub})
        \cup on("Binop",
                UNION {{(lo :> Binop("I32Add", lo + 1, m + 1)) @@ l @@ r :
                            l \in Tree(K, n, lo + 1, m), r \in Tree(K, n, m + 1, hi)} :
                       m \in (lo + 1)..(hi - 1)})
        \cup on("IfElse",
                UNION {UNION {{(lo :> IfElse(lo + 1, a + 1, b + 1)) @@ c
                                 @@ ((a + 1) :> Block("IfElse", rc, fc.roots)) @@ fc.nodes
                                 @@ ((b + 1) :> Block("IfElse", ra, fa.roots)) @@ fa.nodes :
                                    c \in Tree(K, n, lo + 1, a),
                                    fc \in Forest(K, n, a + 2, b),
                                    fa \in Forest(K, n, b + 2, hi),
                                    rc \in ResultLists, ra \in ResultLists} :
                              b \in (a + 1)..(hi - 1)} :
                       a \in (lo + 1)..(hi - 2)})

\* every BlockId of the body names a Block
BlockRefs(e) ==
    CASE e.tag \in {"Br", "BrIf"} -> {e.block}
      [] e.tag = "BrTable" -> Range(e.blocks) \cup {e.default}
      [] e.tag = "IfElse" -> {e.consequent, e.alternative}
      [] OTHER -> {}

WellTyped(f) ==
    \A i \in DOMAIN f : \A b \in BlockRefs(f[i]) : b \in DOMAIN f /\ f[b].tag = "Block"

\* the bodies of exactly n expressions over the variants K
BodiesOf(K, n) ==
    {f \in {(1 :> Block("FunctionEntry", r, t.roots)) @@ t.nodes :
                r \in ResultLists, t \in Forest(K, n, 2, n)} : WellTyped(f)}

ControlKinds == {"Const", "Unreachable", "Block", "Br", "BrIf", "Drop"}
OperandKinds == {"Const", "LocalGet", "MemorySize", "Return", "Load", "Binop"}

\* every body of at most max expressions, over the control variants and
\* over the operand variants
SmallBodies(max) ==
    UNION {BodiesOf(ControlKinds, n) \cup BodiesOf(OperandKinds, n) : n \in 1..max}

BlockKinds == {"Block", "Loop"}

\* the branches placed at id i, with targets in T: the expression and its operand
BranchesAt(i, T) ==
    {<<Br(t, <<>>)>> : t \in T}
    \cup {<<BrIf(t, <<>>, i + 1), Const(1)>> : t \in T}
    \cup {<<BrTable(i + 1, <<t>>, d, <<>>), Const(1)>> : t \in T, d \in T}

\* a branch under MaxDepth nested blocks, to any block of the body:
\* (block|loop (block|loop ... (br|br_if|br_table t)))
NestOf(depth) ==
    {<<Block("FunctionEntry", <<>>, IF depth = 0 THEN <<>> ELSE <<2>>)>>
        \o [i \in 1..depth |-> Block(ks[i], rs[i], <<i + 2>>)] \o x :
        ks \in [1..depth -> BlockKinds],
        rs \in [1..depth -> {<<>>, <<"I64">>}],
        x \in BranchesAt(depth + 2, 1..(depth + 1))}

\* two sibling blocks, a branch in the second: (block|loop) (block|loop (br t))
SiblingBodies ==
    {<<Block("FunctionEntry", <<>>, <<2, 3>>), Block(k1, <<>>, <<>>),
       Block(k2, <<>>, <<4>>)>> \o x :
        k1 \in BlockKinds, k2 \in BlockKinds, x \in BranchesAt(4, 1..3)}

\* what an arm of an if/else holds, placed at id i, with branch targets in T
ArmsAt(i, T) ==
    {<<>>, <<Const(1)>>, <<Drop(i + 1), Const(2)>>}
    \cup {<<Br(t, <<>>)>> : t \in T}

\* (i32.const 1) (if (then X) (else Y)), each arm with its own result list
IfBodies ==
    UNION {
        {<<Block("FunctionEntry", <<>>, <<2>>), IfElse(3, 4, 5 + Len(x)), Const(1),
           Block("IfElse", rc, IF x = <<>> THEN <<>> ELSE <<5>>)>> \o x
         \o <<Block("IfElse", ra, IF y = <<>> THEN <<>> ELSE <<6 + Len(x)>>)>> \o y :
            rc \in ResultLists, ra \in ResultLists,
            y \in ArmsAt(6 + Len(x), {1, 4, 5 + Len(x)})} :
        x \in UNION {ArmsAt(5, {1, 4, 5 + n}) : n \in 0..MaxArm}}

\* n operands that differ, placed one after the other
Consts(n) == [i \in 1..n |-> Const(i)]

\* one access to a memory on constant operands, of every variant that has a
\* MemArg: the entry block holds the access alone
AccessBodies ==
    LET body(x, n) == <<Block("FunctionEntry", <<>>, <<2>>), x>> \o Consts(n)
    IN UNION {
        {body(Load(k, m, 3, a), 1) : k \in {"I64"}}
        \cup {body(Store(k, m, 3, 4, a), 2) : k \in {"I32", "I32Atomic", "I32_8"}}
        \cup {body(AtomicRmw(op, "I32", m, 3, 4, a), 2) : op \in {"Add", "Sub"}}
        \cup {body(Cmpxchg(w, m, 3, 4, 5, a), 3) : w \in {"I32", "I64_32"}}
        \cup {body(AtomicNotify(m, 3, 4, a), 2)}
        \cup {body(AtomicWait(sf, m, 3, 4, 5, a), 3) : sf \in BOOLEAN} :
        m \in Memories, a \in MemArgs}

Leaves == {Const(1), Const(2), LocalGet(1), LocalGet(2)}

\* expressions with several operands: a binop under a return, a return of two
\* values, calls with arguments, a br_if with an argument, a store of a sum
OperandBodies ==
    {<<Block("FunctionEntry", <<>>, <<2>>), Return(<<3>>), Binop(op, 4, 5), l, r>> :
        op \in {"I32Add", "I32Sub"}, l \in Leaves, r \in Leaves}
    \cup {<<Block("FunctionEntry", <<>>, <<2>>), Return(<<3, 4>>), l, r>> :
            l \in Leaves, r \in Leaves}
    \cup {<<Block("FunctionEntry", <<>>, <<2>>), Call(f, <<3, 4>>), l, r>> :
            f \in DOMAIN Indices.funcs, l \in Leaves, r \in Leaves}
    \cup {<<Block("FunctionEntry", <<>>, <<2>>), Call(f, <<>>)>> :
            f \in DOMAIN Indices.funcs}
    \cup {<<Block("FunctionEntry", <<>>, <<2>>), CallIndirect(ty, t, 5, <<3, 4>>)>>
            \o Consts(3) : ty \in DOMAIN Indices.types, t \in DOMAIN Indices.tables}
    \cup {<<Block("FunctionEntry", <<>>, <<2>>), BrIf(1, <<3>>, 4), l, r>> :
            l \in Leaves, r \in Leaves}
    \cup {<<Block("FunctionEntry", <<>>, <<2>>),
            Store("I32", 1, 3, 4, MemArg(4, 0)), l, Binop("I32Add", 5, 6), r, l>> :
            l \in Leaves, r \in Leaves}

\* one operation on a memory as a whole, on constant operands, of every variant:
\* the entry block holds the operation alone
MemoryBodies ==
    LET body(x, n) == <<Block("FunctionEntry", <<>>, <<2>>), x>> \o Consts(n)
    IN UNION {
        {body(MemorySize(m), 0), body(MemoryGrow(m, 3), 1),
         body(MemoryFill(m, 3, 4, 5), 3)}
        \cup {body(MemoryInit(m, d, 3, 4, 5), 3) : d \in DOMAIN Indices.data}
        \cup {body(MemoryCopy(m, dst, 3, 4, 5), 3) : dst \in Memories} :
        m \in Memories}

\* a WithSideEffects of nb expressions before and na after its value, alone in
\* the entry block or under a drop; the expressions differ, each a constant
SideEffectBodies ==
    LET wse(at, nb, na) ==
            <<WithSideEffects([i \in 1..nb |-> at + i], at + nb + 1,
                              [i \in 1..na |-> at + nb + 1 + i])>>
            \o [i \in 1..(nb + 1 + na) |-> Const(i)]
    IN UNION {
        {<<Block("FunctionEntry", <<>>, <<2>>)>> \o wse(2, nb, na),
         <<Block("FunctionEntry", <<>>, <<2>>), Drop(3)>> \o wse(3, nb, na)} :
        nb \in 0..2, na \in 0..2}

\* a select of three operands that differ, alone or under a drop
SelectBodies ==
    {<<Block("FunctionEntry", <<>>, <<2>>), Select(3, 4, 5), c, a, b>> :
        c \in Leaves, a \in Leaves, b \in Leaves}
    \cup {<<Block("FunctionEntry", <<>>, <<2>>), Drop(3), Select(4, 5, 6),
            Binop("I32Add", 7, 8), LocalGet(1), LocalGet(2), Const(1), Const(2)>>}

\* the bodies the emitter is run on, the small ones of at most max expressions
Bodies(max) ==
    SmallBodies(max) \cup NestOf(MaxDepth) \cup SiblingBodies \cup IfBodies
    \cup AccessBodies \cup OperandBodies \cup SideEffectBodies \cup SelectBodies
    \cup MemoryBodies

(***************************************************************************)
(* Specification Spec: the emitter run on one body, step by step.          *)
(***************************************************************************)
Idle == [status |-> "idle"]

\* the Module's config and locals before anything is parsed
NewModule == [config |-> FALSE, locals |-> <<>>]
\* IndicesToIds, empty
NewIds == [funcs |-> <<>>, locals |-> <<>>]
\* no call in progress, nothing returned yet
NoCall == [op |-> "none"]
NoResult == [op |-> "none"]

ModuleVars == <<arena, phase, cx, functions, jobs>>

Init ==
    /\ func \in Bodies(MaxExprs)
    /\ emit = run(func, Indices, LocalIndices, <<>>)
    /\ arena = <<>>
    /\ phase = "emit_body"
    /\ cx = <<>>
    /\ functions = <<>>
    /\ jobs = <<>>
    /\ module = NewModule
    /\ indices_to_ids = NewIds
    /\ call = NoCall
    /\ result = NoResult

\* the piece of work the visitor is about to do
Top == Head(emit.stack)

At(op) == emit.status = "running" /\ Top.op = op

Advance == emit' = Step(emit) /\ UNCHANGED <<func, ModuleVars, ParserVars>>

\* a call of visit_expr_id: the match arm up to its first recursive visit
VisitExprId == At("visit") /\ Advance
\* the opcode a match arm writes after its operands
WriteOpcode == At("raw") /\ Advance
\* the closing self.id = old of visit_expr_id
RestoreId == At("restore") /\ Advance
\* visit_if_else after the condition: if and the block type
VisitIfElseOpen == At("if") /\ Advance
\* visit_block after the children: end, and the pop
VisitBlockEnd == At("end_block") /\ Advance
\* Br and BrIf after their operands
VisitBr == At("br") /\ Advance
\* visit_br_table after its operands
VisitBrTable == At("br_table") /\ Advance
\* memarg after the opcode of a memory access
VisitMemArg == At("memarg") /\ Advance
\* the memory index after the opcode of a bulk memory operation
VisitMemoryIndex == At("memory_index") /\ Advance

\* the body is emitted a second time, with the body and the maps as the first
\* emission left them, into a buffer of its own
EmitAgain ==
    /\ emit.status \in {"done", "panicked"}
    /\ result = NoResult
    /\ result' = [op |-> "emit_instructions",
                  out |-> emit_instructions(emit.func, emit.indices,
                                            emit.local_indices, <<>>)]
    /\ UNCHANGED <<func, emit, ModuleVars, module, indices_to_ids, call>>

Next ==
    \/ EmitAgain
    \/ VisitExprId
    \/ WriteOpcode
    \/ RestoreId
    \/ VisitIfElseOpen
    \/ VisitBlockEnd
    \/ VisitBr
    \/ VisitBrTable
    \/ VisitMemArg
    \/ VisitMemoryIndex

Spec == Init /\ [][Next]_vars

(***************************************************************************)
(* The functions of a module (src/module/functions/mod.rs).                *)
(***************************************************************************)
None == <<>>
Some(x) == <<x>>

\* FunctionKind
Import(ty, import) == [kind |-> "Import", ty |-> ty, import |-> import]
Local(l) == [kind |-> "Local", local |-> l]
Uninitialized(ty) == [kind |-> "Uninitialized", ty |-> ty]

\* Function
Function(id, kind, name) == [id |-> id, kind |-> kind, name |-> name]

\* Function::ty
FunctionTy(f) ==
    CASE f.kind.kind = "Local" -> f.kind.local.ty
      [] f.kind.kind = "Import" -> f.kind.ty
      [] f.kind.kind = "Uninitialized" -> f.kind.ty

\* Tombstone for Function: on_delete
on_delete(f) == [f EXCEPT !.kind = Uninitialized(FunctionTy(f)), !.name = None]

\* TombstoneArena: the items, each slot kept for good, and the ids deleted
NewArena == [items |-> <<>>, dead |-> {}]

\* an allocation that takes over the slot of a deleted item when there is one
alloc_with_id_reusing(a, kind) ==
    IF a.dead = {}
    THEN [a EXCEPT !.items = Append(@, Function(Len(a.items) + 1, kind, None))]
    ELSE LET d == CHOOSE x \in a.dead : \A y \in a.dead : x <= y
         IN [a EXCEPT !.items[d] = Function(d, kind, None), !.dead = @ \ {d}]

\* TombstoneArena::alloc_with_id: the next slot, its id handed to the constructor
alloc_with_id(a, kind) ==
    [a EXCEPT !.items = Append(@, Function(Len(a.items) + 1, kind, None))]

\* TombstoneArena::delete: the item is told, and its id marked dead
arena_delete(a, id) ==
    [a EXCEPT !.items[id] = on_delete(@), !.dead = @ \cup {id}]

\* TombstoneArena::iter: the live items, in id order
arena_iter(a) ==
    LET live == {i \in DOMAIN a.items : i \notin a.dead}
        RECURSIVE upFrom(_)
        upFrom(i) ==
            IF i > Len(a.items) THEN <<>>
            ELSE (IF i \in live THEN <<a.items[i]>> ELSE <<>>) \o upFrom(i + 1)
    IN upFrom(1)

\* LocalFunction::size: the number of expressions of the body
size(l) == Len(l.body)

RECURSIVE LexLess(_, _)
\* the order of tuples: the first components that differ decide
LexLess(a, b) ==
    IF a = <<>> \/ b = <<>> THEN a = <<>> /\ b # <<>>
    ELSE Head(a) < Head(b) \/ (Head(a) = Head(b) /\ LexLess(Tail(a), Tail(b)))

RECURSIVE InsertSorted(_, _)
\* x put after the last entry whose key is not greater than its own
InsertSorted(x, sorted) ==
    IF sorted = <<>> THEN <<x>>
    ELSE IF LexLess(x.key, Head(sorted).key) THEN <<x>> \o sorted
         ELSE <<Head(sorted)>> \o InsertSorted(x, Tail(sorted))

RECURSIVE SortKeyed(_)
SortKeyed(v) ==
    IF v = <<>> THEN <<>>
    ELSE InsertSorted(v[Len(v)], SortKeyed(SubSeq(v, 1, Len(v) - 1)))

\* slice::sort_by_key: a stable sort of v by the keys, keys[i] the key of v[i]
sort_by_key(v, keys) ==
    LET sorted == SortKeyed([i \in 1..Len(v) |-> [item |-> v[i], key |-> keys[i]]])
    IN [i \in 1..Len(v) |-> sorted[i].item]

\* cmp::Reverse(size): the order of the sizes turned round
Reverse(n) == 0 - n

\* the entries used_local_functions pushes for the items, in the order given
LocalEntries(items) ==
    LET entry(f) == IF f.kind.kind = "Local"
                    THEN <<[id |-> f.id, local |-> f.kind.local, size |-> size(f.kind.local)]>>
                    ELSE <<>>
    IN Flatten([i \in 1..Len(items) |-> entry(items[i])])

\* the functions sorted by size alone
sort_functions_by_size_only(v) ==
    sort_by_key(v, [i \in 1..Len(v) |-> <<Reverse(v[i].size)>>])

\* functions.sort_by_key(|(id, _, size)| (cmp::Reverse(*size), *id))
sort_functions(v) ==
    sort_by_key(v, [i \in 1..Len(v) |-> <<Reverse(v[i].size), v[i].id>>])

\* used_local_functions over the items as iterated: the Vec, or the panic of the
\* unreachable!() on an Uninitialized function
used_local_functions_of(items) ==
    IF \E i \in DOMAIN items : items[i].kind.kind = "Uninitialized"
    THEN [panicked |-> TRUE, functions |-> <<>>]
    ELSE [panicked |-> FALSE, functions |-> sort_functions(LocalEntries(items))]

\* used_local_functions
used_local_functions(a) == used_local_functions_of(arena_iter(a))

(***************************************************************************)
(* The locals of a function (LocalFunction::emit_locals, crate::module's   *)
(* locals): the prelude and the index of each used local.                  *)
(***************************************************************************)
\* the module's locals and their types
LocalTy == <<"I32", "I32", "I64">>
ValTypeOrder == <<"I32", "I64", "F32", "F64", "V128">>

RECURSIVE Ascending(_)
Ascending(S) ==
    IF S = {} THEN <<>>
    ELSE LET m == CHOOSE x \in S : \A y \in S : x <= y
         IN <<m>> \o Ascending(S \ {m})

\* the locals the body reads
UsedLocals(body) == {body[i].local : i \in {j \in DOMAIN body : body[j].tag = "LocalGet"}}

\* LocalFunction::emit_locals: parameters keep their indices; the other used
\* locals are grouped by type, each group a run of the prelude
emit_locals(l, encoder) ==
    LET used == UsedLocals(l.body)
        rest == used \ Range(l.args)
        group(t) == Ascending({x \in rest : LocalTy[x] = t})
        groups == SelectSeq([k \in 1..Len(ValTypeOrder) |-> group(ValTypeOrder[k])],
                            LAMBDA g : g # <<>>)
        order == l.args \o Flatten(groups)
        prelude == Leb128U(Len(groups))
                   \o Flatten([k \in 1..Len(groups) |->
                                  Leb128U(Len(groups[k]))
                                  \o <<ValTypeByte(LocalTy[groups[k][1]])>>])
    IN [used_locals |-> used,
        local_indices |-> [x \in Range(order) |->
                              (CHOOSE k \in 1..Len(order) : order[k] = x) - 1],
        encoder |-> encoder \o prelude]

\* the closure with its two calls the other way round: the instructions first
emit_function_body_first(indices, entry) ==
    LET locals == emit_locals(entry.local, <<>>)
        body == emit_instructions(entry.local.body, indices, locals.local_indices, <<>>)
    IN [wasm |-> body.encoder \o locals.encoder, id |-> entry.id,
        used_locals |-> locals.used_locals,
        local_indices |-> locals.local_indices, panicked |-> body.status = "panicked"]

\* the closure of the parallel map of emit: one function's bytes and maps
emit_function(indices, entry) ==
    LET locals == emit_locals(entry.local, <<>>)
        body == emit_instructions(entry.local.body, indices, locals.local_indices,
                                  locals.encoder)
    IN [wasm |-> body.encoder, id |-> entry.id, used_locals |-> locals.used_locals,
        local_indices |-> locals.local_indices, panicked |-> body.status = "panicked"]

\* the collect of the parallel map that hands on what a panicked job left
par_collect_ignoring_panics(js) ==
    [panicked |-> FALSE, items |-> [i \in 1..Len(js) |-> js[i].out]]

\* the collect of the parallel map that takes the results as the jobs finish
par_collect_as_finished(js) ==
    IF \E i \in DOMAIN js : js[i].out.panicked
    THEN [panicked |-> TRUE, items |-> <<>>]
    ELSE [panicked |-> FALSE,
          items |-> [k \in 1..Len(js) |-> js[CHOOSE i \in DOMAIN js : js[i].rank = k].out]]

\* the collect of the parallel map: the results in the order of the input, or
\* the panic of a job
par_collect(js) ==
    IF \E i \in DOMAIN js : js[i].out.panicked
    THEN [panicked |-> TRUE, items |-> <<>>]
    ELSE [panicked |-> FALSE, items |-> [i \in 1..Len(js) |-> js[i].out]]

\* Encoder::bytes: a byte vector of the binary format, its length and its bytes
encoder_bytes(b) == Leb128U(Len(b)) \o b

\* the serial loop of emit: the bytes appended, the maps filled
assemble(c, items) ==
    [c EXCEPT
        !.code_section = @ \o Flatten([i \in 1..Len(items) |->
                                          encoder_bytes(items[i].wasm)]),
        !.indices.locals = [id \in {items[i].id : i \in DOMAIN items} |->
                               (CHOOSE x \in Range(items) : x.id = id).local_indices],
        !.locals = [id \in {items[i].id : i \in DOMAIN items} |->
                       (CHOOSE x \in Range(items) : x.id = id).used_locals]]

(***************************************************************************)
(* The local functions added to the module.                                *)
(***************************************************************************)
LocalFunction(ty, args, body) == [ty |-> ty, args |-> args, body |-> body]

TypeIds == {1, 2}

LocalFunctions ==
    { \* (func)
      LocalFunction(1, <<>>, <<Block("FunctionEntry", <<>>, <<>>)>>),
      \* (func (loop (br 0)))
      LocalFunction(1, <<>>,
          <<Block("FunctionEntry", <<>>, <<2>>), Block("Loop", <<>>, <<3>>), Br(2, <<>>)>>),
      \* (func (param i32) (local i64) (drop (local.get 2))), as many expressions
      LocalFunction(2, <<1>>,
          <<Block("FunctionEntry", <<>>, <<2>>), Drop(3), LocalGet(3)>>),
      \* a branch to a block that is not open
      LocalFunction(1, <<>>,
          <<Block("FunctionEntry", <<>>, <<2, 3>>), Block("Block", <<>>, <<>>),
            Br(2, <<>>)>>),
      \* a block of two results
      LocalFunction(2, <<1>>,
          <<Block("FunctionEntry", <<>>, <<2, 3>>), Const(1),
            Block("Block", <<"I32", "I64">>, <<>>)>>),
      \* a load from the second memory
      LocalFunction(1, <<>>,
          <<Block("FunctionEntry", <<>>, <<2>>), Drop(3),
            Load("I32", 2, 4, MemArg(4, 0)), Const(1)>>) }

\* EmitContext, as the emission of a module starts
NewContext ==
    [indices |-> [funcs |-> <<>>, types |-> <<0, 1>>, memories |-> <<0, 1>>,
                  locals |-> <<>>],
     func_section |-> <<>>, code_section |-> <<>>, locals |-> <<>>]

\* push_func that gives the function the first index
push_func_front(indices, id) == [indices EXCEPT !.funcs = <<id>> \o @]

\* IdsToIndices::push_func
push_func(indices, id) == [indices EXCEPT !.funcs = Append(@, id)]

RECURSIVE emit_func_section_loop(_, _)
\* the loop of emit_func_section: the type index of each function is written
\* and the function is given the next wire index
emit_func_section_loop(c, fs) ==
    IF fs = <<>> THEN c
    ELSE emit_func_section_loop(
            [c EXCEPT !.func_section =
                          @ \o Leb128U(get_type_index(c.indices, Head(fs).local.ty)),
                      !.indices = push_func(@, Head(fs).id)],
            Tail(fs))

(***************************************************************************)
(* Specification SpecModule: a module is built, then emitted.              *)
(***************************************************************************)
EmitterVars == <<func, emit>>

InitModule ==
    /\ func = <<>>
    /\ emit = Idle
    /\ arena = NewArena
    /\ phase = "edit"
    /\ cx = NewContext
    /\ functions = <<>>
    /\ jobs = <<>>
    /\ module = NewModule
    /\ indices_to_ids = NewIds
    /\ call = NoCall
    /\ result = NoResult

CanAlloc == phase = "edit" /\ Len(arena.items) < MaxFuncs

\* ModuleFunctions::add_import
AddImport ==
    /\ CanAlloc
    /\ \E ty \in TypeIds : arena' = alloc_with_id(arena, Import(ty, 1))
    /\ UNCHANGED <<phase, cx, functions, jobs, EmitterVars, ParserVars>>

\* ModuleFunctions::add_local
AddLocal ==
    /\ CanAlloc
    /\ \E l \in LocalFunctions : arena' = alloc_with_id(arena, Local(l))
    /\ UNCHANGED <<phase, cx, functions, jobs, EmitterVars, ParserVars>>

\* ModuleFunctions::delete
Delete ==
    /\ phase = "edit"
    /\ \E id \in DOMAIN arena.items \ arena.dead : arena' = arena_delete(arena, id)
    /\ UNCHANGED <<phase, cx, functions, jobs, EmitterVars, ParserVars>>

\* ModuleFunctions::emit_func_section
EmitFuncSection ==
    /\ phase = "edit"
    /\ LET used == used_local_functions(arena)
           fs == used.functions
       IN IF used.panicked
          THEN phase' = "aborted" /\ UNCHANGED <<cx, functions>>
          ELSE /\ phase' = "func_section"
               /\ functions' = fs
               /\ cx' = IF Len(fs) = 0 THEN cx
                        ELSE emit_func_section_loop(
                                [cx EXCEPT !.func_section = Leb128U(Len(fs))], fs)
    /\ UNCHANGED <<arena, jobs, EmitterVars, ParserVars>>

\* Emit for ModuleFunctions, up to the parallel map
EmitCodeBegin ==
    /\ phase = "func_section"
    /\ LET used == used_local_functions(arena)
           fs == used.functions
       IN IF used.panicked
          THEN phase' = "aborted" /\ UNCHANGED <<cx, functions, jobs>>
          ELSE /\ functions' = fs
               /\ IF Len(fs) = 0
                  THEN phase' = "emitted" /\ UNCHANGED <<cx, jobs>>
                  ELSE /\ phase' = "code_parallel"
                       /\ cx' = [cx EXCEPT !.code_section = Leb128U(Len(fs))]
                       /\ jobs' = [i \in 1..Len(fs) |->
                                     [state |-> "pending", rank |-> 0, out |-> None]]
    /\ UNCHANGED <<arena, EmitterVars, ParserVars>>

\* a worker takes a function of the parallel map
WorkerStart ==
    /\ phase = "code_parallel"
    /\ \E i \in DOMAIN jobs :
        /\ jobs[i].state = "pending"
        /\ jobs' = [jobs EXCEPT ![i].state = "running"]
    /\ UNCHANGED <<arena, phase, cx, functions, EmitterVars, ParserVars>>

\* a worker is through with its function: the closure has returned or panicked
WorkerFinish ==
    /\ phase = "code_parallel"
    /\ \E i \in DOMAIN jobs :
        /\ jobs[i].state = "running"
        /\ jobs' = [jobs EXCEPT
                      ![i].state = "done",
                      ![i].rank = 1 + Cardinality({j \in DOMAIN jobs : jobs[j].state = "done"}),
                      ![i].out = emit_function(cx.indices, functions[i])]
    /\ UNCHANGED <<arena, phase, cx, functions, EmitterVars, ParserVars>>

AllDone == \A i \in DOMAIN jobs : jobs[i].state = "done"

\* Emit for ModuleFunctions, after the parallel map: the serial loop
EmitCodeCollect ==
    /\ phase = "code_parallel"
    /\ AllDone
    /\ ~par_collect(jobs).panicked
    /\ cx' = assemble(cx, par_collect(jobs).items)
    /\ phase' = "emitted"
    /\ UNCHANGED <<arena, functions, jobs, EmitterVars, ParserVars>>

\* a job has panicked: once no job is running the panic leaves emit
EmitCodePanic ==
    /\ phase = "code_parallel"
    /\ \E i \in DOMAIN jobs : jobs[i].state = "done" /\ jobs[i].out.panicked
    /\ \A i \in DOMAIN jobs : jobs[i].state # "running"
    /\ phase' = "aborted"
    /\ UNCHANGED <<arena, cx, functions, jobs, EmitterVars, ParserVars>>

NextModule ==
    \/ AddImport
    \/ AddLocal
    \/ Delete
    \/ EmitFuncSection
    \/ EmitCodeBegin
    \/ WorkerStart
    \/ WorkerFinish
    \/ EmitCodeCollect
    \/ EmitCodePanic

SpecModule == InitModule /\ [][NextModule]_vars

(***************************************************************************)
(* Parsing the function and code sections (Module::declare_local_functions *)
(* and Module::parse_local_functions).                                     *)
(***************************************************************************)
\* functions in the function section, bodies in the code section
MaxBodies == 2
\* runs of locals a body declares
MaxRuns == 2

\* a u32 in two halves of 16 bits, hi * 2^16 + lo
Half == 65536
U32(hi, lo) == [hi |-> hi, lo |-> lo]
U32Max == U32(Half - 1, Half - 1)

\* an addition of u32 that wraps round
checked_add_wrapping(a, b) ==
    LET lo == a.lo + b.lo
        hi == a.hi + b.hi + (lo \div Half)
    IN Some(U32(hi % Half, lo % Half))

\* u32::checked_add
checked_add(a, b) ==
    LET lo == a.lo + b.lo
        hi == a.hi + b.hi + (lo \div Half)
    IN IF hi >= Half THEN None ELSE Some(U32(hi, lo % Half))

Ok(v) == [ok |-> TRUE, value |-> v]
Err(e) == [ok |-> FALSE, error |-> e]

CountMismatchMsg == "code and function sections must have same number of entries"
TooManyLocalsMsg == "can't have more than 2^32 locals"
BadBodyMsg == "invalid function body"

\* the parameters of the module's types
TypeParams == <<<<>>, <<"I32">>>>

\* the body LocalFunction::parse builds from a well-formed operator stream
ParsedBody == <<Block("FunctionEntry", <<>>, <<>>)>>

\* LocalFunction::parse: the function of a well-formed body, or its error
LocalFunctionParse(id, ty, args, body) ==
    IF body.ops = "ok" THEN Ok(LocalFunction(ty, args, ParsedBody))
    ELSE Err([text |-> BadBodyMsg, func |-> id])

\* ModuleLocals::add, count times over: a span of locals of one type
locals_add(m, ty, count, owner, names) ==
    [m EXCEPT !.locals = Append(@, [ty |-> ty, count |-> count, owner |-> owner,
                                    names |-> IF m.config THEN Some(names) ELSE None])]

\* IndicesToIds::push_local for each local of the span last added
push_local(indices, id, span) ==
    [indices EXCEPT !.locals =
        IF id \in DOMAIN @ THEN [@ EXCEPT ![id] = Append(@, span)]
        ELSE (id :> <<span>>) @@ @]

\* IndicesToIds::get_func
get_func(indices, index) ==
    IF index + 1 \in DOMAIN indices.funcs THEN Ok(indices.funcs[index + 1])
    ELSE Err("index out of bounds")

\* the runs of locals a body may declare
LocalCounts == {U32(0, 1), U32(Half - 1, Half - 2), U32Max}
RunTypes == <<"I64", "F32", "F64">>
RunLists ==
    UNION {[1..n -> LocalCounts] : n \in 0..MaxRuns}

\* a function body of the code section: its runs of locals, its operators
FunctionBody(counts, ops) ==
    [locals |-> [k \in 1..Len(counts) |-> [count |-> counts[k], ty |-> RunTypes[k]]],
     ops |-> ops]

FunctionBodies ==
    {FunctionBody(c, "ok") : c \in RunLists} \cup {FunctionBody(<<>>, "bad")}

CodeSections == UNION {[1..n -> FunctionBodies] : n \in 0..MaxBodies}

\* the function section: the type of each function declared
FunctionSections == {[k \in 1..n |-> 1 + (k % 2)] : n \in 0..MaxBodies}

RECURSIVE total_locals(_, _)
\* the loop over get_locals_reader that adds the counts up
total_locals(total, runs) ==
    IF runs = <<>> THEN Some(total)
    ELSE LET n == checked_add(total, Head(runs).count)
         IN IF n = None THEN None ELSE total_locals(n[1], Tail(runs))

RECURSIVE add_params(_, _, _, _)
\* the loop over the parameters: a local for each, registered and kept in args
add_params(st, id, params, k) ==
    IF k > Len(params) THEN st
    ELSE LET m == locals_add(st.module, params[k], U32(0, 1), id, "arg")
             span == Len(m.locals)
         IN add_params([module |-> m,
                        indices |-> push_local(st.indices, id, span),
                        args |-> Append(st.args, span)],
                       id, params, k + 1)

\* the declared locals left to be created later
add_locals_deferred(st, id, runs, k) == st

RECURSIVE add_locals(_, _, _, _)
\* the loop over the runs: count locals of the run's type, each registered
add_locals(st, id, runs, k) ==
    IF k > Len(runs) THEN st
    ELSE LET m == locals_add(st.module, runs[k].ty, runs[k].count, id, "l")
         IN add_locals([st EXCEPT !.module = m,
                                  !.indices = push_local(st.indices, id, Len(m.locals))],
                       id, runs, k + 1)

InitParse ==
    /\ func = <<>>
    /\ emit = Idle
    /\ \E imports \in 0..1, config \in BOOLEAN :
        /\ arena = IF imports = 0 THEN NewArena
                   ELSE alloc_with_id(NewArena, Import(1, 1))
        /\ indices_to_ids = [NewIds EXCEPT !.funcs = [k \in 1..imports |-> k]]
        /\ module = [NewModule EXCEPT !.config = config]
    /\ phase = "function_section"
    /\ cx = NewContext
    /\ functions = <<>>
    /\ jobs = <<>>
    /\ call = NoCall
    /\ result = NoResult

RECURSIVE declare(_, _)
\* the loop of declare_local_functions over the function section
declare(st, section) ==
    IF section = <<>> THEN st
    ELSE LET a == [st.arena EXCEPT !.items =
                      Append(@, Function(Len(@) + 1, Uninitialized(Head(section)), None))]
             id == Len(a.items)
             idx == Len(st.indices.funcs)
             named == IF st.config
                      THEN [a EXCEPT !.items[id].name = Some(<<"f", idx>>)]
                      ELSE a
         IN declare([st EXCEPT !.arena = named,
                               !.indices.funcs = Append(@, id)],
                    Tail(section))

\* Module::declare_local_functions
DeclareLocalFunctions ==
    /\ phase = "function_section"
    /\ \E section \in FunctionSections :
        LET st == declare([arena |-> arena, indices |-> indices_to_ids,
                           config |-> module.config], section)
        IN /\ arena' = st.arena
           /\ indices_to_ids' = st.indices
           /\ call' = [op |-> "parse", function_section_count |-> Len(section)]
    /\ phase' = "code_section"
    /\ result' = Ok("declared")
    /\ UNCHANGED <<module, cx, functions, jobs, EmitterVars>>

\* the check of the counts that accepts a code section of fewer entries
check_counts_at_most(amt, function_section_count) ==
    IF amt > function_section_count THEN Err([text |-> CountMismatchMsg]) ELSE Ok(amt)

\* parse_local_functions: the count of the code section against the count of
\* the function section
check_counts(amt, function_section_count) ==
    IF amt # function_section_count THEN Err([text |-> CountMismatchMsg]) ELSE Ok(amt)

\* Module::parse_local_functions, up to its serial loop
ParseLocalFunctions ==
    /\ phase = "code_section"
    /\ \E section \in CodeSections :
        LET amt == Len(section)
            checked == check_counts(amt, call.function_section_count)
        IN IF ~checked.ok
           THEN /\ result' = checked
                /\ phase' = "parse_failed"
                /\ call' = [op |-> "parse_refused", section |-> section,
                            function_section_count |-> call.function_section_count]
                /\ UNCHANGED jobs
           ELSE /\ call' = [op |-> "parse_local_functions", section |-> section,
                            num_imports |-> Len(arena.items) - amt, i |-> 0,
                            bodies |-> <<>>]
                /\ result' = NoResult
                /\ IF amt = 0
                   THEN phase' = "parse_parallel" /\ jobs' = <<>>
                   ELSE phase' = "parse_serial" /\ UNCHANGED jobs
    /\ UNCHANGED <<arena, module, indices_to_ids, cx, functions, EmitterVars>>

\* one turn of the serial loop: the locals of a body, or the error of its runs
ParseSerial ==
    /\ phase = "parse_serial"
    /\ LET body == call.section[call.i + 1]
           id == get_func(indices_to_ids, call.num_imports + call.i).value
           ty == arena.items[id].kind.ty
           withArgs == add_params([module |-> module, indices |-> indices_to_ids,
                                   args |-> <<>>], id, TypeParams[ty], 1)
           total == total_locals(U32(0, 0), body.locals)
           withLocals == add_locals(withArgs, id, body.locals, 1)
       IN IF total = None
          THEN /\ module' = withArgs.module
               /\ indices_to_ids' = withArgs.indices
               /\ result' = Err([text |-> TooManyLocalsMsg])
               /\ phase' = "parse_failed"
               /\ UNCHANGED <<call, jobs>>
          ELSE /\ module' = withLocals.module
               /\ indices_to_ids' = withLocals.indices
               /\ LET bodies == Append(call.bodies,
                                  [id |-> id, body |-> body, args |-> withLocals.args,
                                   ty |-> ty])
                  IN /\ call' = [call EXCEPT !.i = @ + 1, !.bodies = bodies]
                     /\ IF call.i + 1 = Len(call.section)
                        THEN /\ phase' = "parse_parallel"
                             /\ jobs' = [k \in 1..Len(bodies) |->
                                           [state |-> "pending", out |-> None]]
                        ELSE UNCHANGED <<phase, jobs>>
               /\ UNCHANGED result
    /\ UNCHANGED <<arena, cx, functions, EmitterVars>>

\* a worker takes a body of the parallel map
ParseWorkerStart ==
    /\ phase = "parse_parallel"
    /\ \E k \in DOMAIN jobs :
        /\ jobs[k].state = "pending"
        /\ jobs' = [jobs EXCEPT ![k].state = "running"]
    /\ UNCHANGED <<arena, phase, cx, functions, EmitterVars, ParserVars>>

\* a worker is through with its body: LocalFunction::parse has returned
ParseWorkerFinish ==
    /\ phase = "parse_parallel"
    /\ \E k \in DOMAIN jobs :
        /\ jobs[k].state = "running"
        /\ LET b == call.bodies[k]
           IN jobs' = [jobs EXCEPT
                         ![k].state = "done",
                         ![k].out = [id |-> b.id,
                                     func |-> LocalFunctionParse(b.id, b.ty, b.args, b.body)]]
    /\ UNCHANGED <<arena, phase, cx, functions, EmitterVars, ParserVars>>

\* the results pushed into the arena, the first of them only
install_first_only(a, results) ==
    IF results = <<>> THEN [arena |-> a, result |-> Ok("parsed")]
    ELSE IF ~Head(results).func.ok
         THEN [arena |-> a, result |-> Err(Head(results).func.error)]
         ELSE [arena |-> [a EXCEPT !.items[Head(results).id].kind =
                                      Local(Head(results).func.value)],
               result |-> Ok("parsed")]

RECURSIVE install(_, _)
\* the loop over the results: each function pushed into the arena, up to the
\* first error, which is returned
install(a, results) ==
    IF results = <<>> THEN [arena |-> a, result |-> Ok("parsed")]
    ELSE IF ~Head(results).func.ok
         THEN [arena |-> a, result |-> Err(Head(results).func.error)]
         ELSE install([a EXCEPT !.items[Head(results).id].kind =
                                   Local(Head(results).func.value)],
                      Tail(results))

\* the parallel map is collected; the loop over the results
ParseCollect ==
    /\ phase = "parse_parallel"
    /\ \A k \in DOMAIN jobs : jobs[k].state = "done"
    /\ LET done == install(arena, [k \in 1..Len(jobs) |-> jobs[k].out])
       IN /\ arena' = done.arena
          /\ result' = done.result
          /\ phase' = IF done.result.ok THEN "edit" ELSE "parse_failed"
    /\ UNCHANGED <<module, indices_to_ids, call, cx, functions, jobs, EmitterVars>>

\* ModuleFunctions::add_local, of one function of the set
AddOneLocal ==
    /\ AddLocal
    /\ arena'.items[Len(arena'.items)].kind = Local(CHOOSE l \in LocalFunctions : TRUE)

NextParse ==
    \/ DeclareLocalFunctions
    \/ ParseLocalFunctions
    \/ ParseSerial
    \/ ParseWorkerStart
    \/ ParseWorkerFinish
    \/ ParseCollect
    \/ AddImport
    \/ AddOneLocal
    \/ Delete
    \/ EmitFuncSection

SpecParse == InitParse /\ [][NextParse]_vars

(***************************************************************************)
(* Names of functions (Function::name, ModuleFunctions::by_name).          *)
(***************************************************************************)
Names == {"a", "b"}

\* by_name returning the last function of the name
by_name_last(a, name) ==
    LET items == arena_iter(a)
        hits == {k \in DOMAIN items : items[k].name = Some(name)}
    IN IF hits = {} THEN None
       ELSE Some(items[CHOOSE k \in hits : \A j \in hits : j <= k].id)

\* ModuleFunctions::by_name: find_map over the arena's iterator
by_name(a, name) ==
    LET items == arena_iter(a)
        hits == {k \in DOMAIN items : items[k].name = Some(name)}
    IN IF hits = {} THEN None
       ELSE Some(items[CHOOSE k \in hits : \A j \in hits : k <= j].id)

\* a name given to a function through get_mut: the field is public
SetName ==
    /\ phase = "edit"
    /\ \E id \in DOMAIN arena.items \ arena.dead, name \in Names :
        arena' = [arena EXCEPT !.items[id].name = Some(name)]
    /\ UNCHANGED <<phase, cx, functions, jobs, EmitterVars, ParserVars>>

\* ModuleFunctions::by_name called on the module as edited so far
ByName ==
    /\ phase = "edit"
    /\ \E name \in Names :
        result' = [op |-> "by_name", name |-> name, value |-> by_name(arena, name)]
    /\ phase' = "by_name"
    /\ UNCHANGED <<arena, cx, functions, jobs, EmitterVars, module, indices_to_ids, call>>

NextNames ==
    \/ AddImport
    \/ AddOneLocal
    \/ Delete
    \/ SetName
    \/ ByName

SpecNames == InitModule /\ [][NextNames]_vars

(***************************************************************************)
(* Properties of the emitter (specification Spec).                         *)
(***************************************************************************)
\* the visitor, in the context st (its id and open blocks), run on `tasks` alone
\* with an empty encoder
EmittedBy(st, tasks) ==
    IF tasks = <<>> THEN [st EXCEPT !.stack = <<>>, !.encoder = <<>>, !.status = "done"]
    ELSE Exec([st EXCEPT !.stack = tasks, !.encoder = <<>>])

\* the bytes of an expression visited in the context st
ExprBytes(st, id) == EmittedBy(st, <<Visit(id)>>).encoder

\* the bytes of the children of block b, visited with b open on top of st's blocks
ChildrenBytes(st, b) ==
    EmittedBy([st EXCEPT !.id = b, !.blocks = Append(@, b)],
              VisitAll(block(st.func, b).exprs)).encoder

\* the block type byte of a result list of at most one type
BlockTypeByte(results) == IF results = <<>> THEN 64 ELSE ValTypeByte(results[1])

\* the depth of b: how many open blocks lie above its topmost occurrence
DepthFromTop(blocks, b) ==
    CHOOSE d \in 0..(Len(blocks) - 1) :
        /\ blocks[Len(blocks) - d] = b
        /\ \A k \in 0..(d - 1) : blocks[Len(blocks) - k] # b

OnStack(b) == b \in Range(emit.blocks)

\* (loop (br 0)), scenario 2 of the spec
LoopScenario ==
    <<Block("FunctionEntry", <<>>, <<2>>), Block("Loop", <<>>, <<3>>), Br(2, <<>>)>>

\* (i32.const 1) (if (then (drop (i32.const 2)))), scenario 3 of the spec
IfScenario ==
    <<Block("FunctionEntry", <<>>, <<2>>), IfElse(3, 4, 7), Const(1),
      Block("IfElse", <<>>, <<5>>), Drop(6), Const(2), Block("IfElse", <<>>, <<>>)>>

\* C1: a Br, BrIf or BrTable is written with, for each target, its 0-based position
\* from the top of the stack of open blocks; (loop (br 0)) emits 03 40 0c 00 0b 0b.
C1_BranchDepth ==
    /\ At("br") /\ OnStack(Top.block) =>
            Step(emit).encoder =
                emit.encoder \o <<Top.opcode>>
                    \o Leb128U(DepthFromTop(emit.blocks, Top.block))
    /\ At("br_table") /\ (\A b \in Range(Top.blocks) \cup {Top.default} : OnStack(b)) =>
            Step(emit).encoder =
                emit.encoder \o <<14>> \o Leb128U(Len(Top.blocks))
                    \o Flatten([i \in 1..Len(Top.blocks) |->
                                   Leb128U(DepthFromTop(emit.blocks, Top.blocks[i]))])
                    \o Leb128U(DepthFromTop(emit.blocks, Top.default))
    /\ func = LoopScenario /\ emit.status = "done" =>
            emit.encoder = <<3, 64, 12, 0, 11, 11>>

\* a br to the outer of two open blocks has just been written with depth 1
C1_Witness ==
    /\ emit.status = "running"
    /\ func[emit.id].tag = "Br"
    /\ Top.op = "restore"
    /\ Len(emit.blocks) = 3
    /\ func[emit.id].block = emit.blocks[2]
    /\ SubSeq(emit.encoder, Len(emit.encoder) - 1, Len(emit.encoder)) = <<12, 1>>

\* C4: an IfElse is the condition's bytes, if and the block type, the consequent's
\* children, else, the alternative's children, end; the arms have no bracket of
\* their own and the else is always there.
C4_IfElseLayout ==
    /\ At("visit") /\ func[Top.expr].tag = "IfElse" =>
            LET e == func[Top.expr]
                here == [emit EXCEPT !.id = Top.expr]
                whole == EmittedBy(emit, <<Visit(Top.expr)>>)
            IN whole.status = "done" =>
                whole.encoder =
                    ExprBytes(here, e.condition)
                    \o <<4, BlockTypeByte(block(func, e.consequent).results)>>
                    \o ChildrenBytes(here, e.consequent)
                    \o <<5>>
                    \o ChildrenBytes(here, e.alternative)
                    \o <<11>>
    /\ func = IfScenario /\ emit.status = "done" =>
            emit.encoder = <<65, 1, 4, 64, 65, 2, 26, 5, 11, 11>>

\* the if with an empty else has been emitted
C4_Witness ==
    /\ func = IfScenario
    /\ emit.status = "done"
    /\ block(func, func[2].alternative).exprs = <<>>

\* C5: a Block is 0x02, a Loop 0x03, then the block type, the children in order
\* and end, and nothing else.
C5_BlockLayout ==
    At("visit") /\ func[Top.expr].tag = "Block"
        /\ func[Top.expr].kind \in {"Block", "Loop"} =>
            LET e == func[Top.expr]
                whole == EmittedBy(emit, <<Visit(Top.expr)>>)
            IN whole.status = "done" =>
                whole.encoder =
                    <<IF e.kind = "Block" THEN 2 ELSE 3, BlockTypeByte(e.results)>>
                    \o ChildrenBytes(emit, Top.expr)
                    \o <<11>>

\* a loop with a child has been emitted whole
C5_Witness ==
    /\ emit.status = "running"
    /\ Top.op = "restore"
    /\ func[emit.id].tag = "Block"
    /\ func[emit.id].kind = "Loop"
    /\ func[emit.id].exprs # <<>>
    /\ emit.encoder[Len(emit.encoder)] = 11

\* C6: the FunctionEntry block writes no opcode and no block type before its
\* children, and one end after them, which ends the stream.
C6_FunctionEntryEnd ==
    emit.status = "done" =>
        emit.encoder =
            ChildrenBytes(run(func, Indices, LocalIndices, <<>>), entry_block(func))
            \o <<11>>

\* a function with children has been emitted
C6_Witness ==
    /\ emit.status = "done"
    /\ block(func, entry_block(func)).exprs # <<>>
    /\ emit.encoder[Len(emit.encoder)] = 11

\* C7: the block type after block, loop or if is 0x40 for no result and the value
\* type's byte for one; for an if it is that of the consequent block.
C7_BlockType ==
    /\ At("visit") /\ func[Top.expr].tag = "Block"
            /\ func[Top.expr].kind \in {"Block", "Loop"}
            /\ Len(func[Top.expr].results) <= 1 =>
        LET e == func[Top.expr]
        IN Step(emit).encoder =
                emit.encoder \o <<IF e.kind = "Block" THEN 2 ELSE 3>>
                    \o (IF Len(e.results) = 0 THEN <<64>>
                        ELSE <<ValTypeByte(e.results[1])>>)
    /\ At("if") /\ func[emit.id].tag = "IfElse"
            /\ Len(block(func, func[emit.id].consequent).results) <= 1 =>
        LET results == block(func, func[emit.id].consequent).results
        IN Step(emit).encoder =
                emit.encoder \o <<4>>
                    \o (IF Len(results) = 0 THEN <<64>>
                        ELSE <<ValTypeByte(results[1])>>)

\* an if whose arms differ in their result lists has got the consequent's type
C7_Witness ==
    /\ emit.status = "running"
    /\ func[emit.id].tag = "IfElse"
    /\ Top.op = "visit"
    /\ Top.expr = func[emit.id].consequent
    /\ block(func, func[emit.id].consequent).results = <<"I64">>
    /\ block(func, func[emit.id].alternative).results = <<>>
    /\ SubSeq(emit.encoder, Len(emit.encoder) - 1, Len(emit.encoder)) = <<4, 126>>

MultiValue(results) == Len(results) >= 2

\* the blocks whose block type the emitter writes: Block, Loop, and the consequent
\* of an IfElse
TypedBlocks(f) ==
    {i \in DOMAIN f : f[i].tag = "Block" /\ f[i].kind \in {"Block", "Loop"}}
    \cup {f[i].consequent : i \in {j \in DOMAIN f : f[j].tag = "IfElse"}}

\* C8, as claimed: a body with any block of two or more results fails at emission.
C8_AnyMultiValueBlockFails ==
    emit.status = "done" =>
        ~ \E i \in DOMAIN func : func[i].tag = "Block" /\ MultiValue(func[i].results)

\* C8, amended: emission fails with the multi-value message when it reaches a
\* Block or Loop, or an IfElse whose consequent, has two or more results, and
\* writes no block type for it; the results of the FunctionEntry block and of an
\* alternative arm are not looked at.
C8_TypedMultiValueBlockFails ==
    /\ emit.status = "done" =>
            ~ \E i \in TypedBlocks(func) : MultiValue(func[i].results)
    /\ At("visit") /\ func[Top.expr].tag = "Block"
            /\ func[Top.expr].kind \in {"Block", "Loop"}
            /\ MultiValue(func[Top.expr].results) =>
        /\ Step(emit).status = "panicked"
        /\ Step(emit).panic.text = MultiValueMsg
        /\ Step(emit).encoder =
                emit.encoder \o <<IF func[Top.expr].kind = "Block" THEN 2 ELSE 3>>
    /\ At("if") /\ MultiValue(block(func, func[emit.id].consequent).results) =>
        /\ Step(emit).status = "panicked"
        /\ Step(emit).panic.text = MultiValueMsg
        /\ Step(emit).encoder = emit.encoder \o <<4>>

\* emission has failed on a multi-value block
C8_Witness ==
    /\ emit.status = "panicked"
    /\ emit.panic.text = MultiValueMsg
    /\ func[emit.id].tag = "Block"
    /\ MultiValue(func[emit.id].results)

\* the error names the expression: its id is among the values of the message
NamesExpr(panic, id) == id \in Range(panic.args)

\* C9: a branch to a block that is not open fails emission with an error that
\* names the offending expression.
C9_BadBranchNamesExpr ==
    /\ At("br") /\ ~OnStack(Top.block) =>
        /\ Step(emit).status = "panicked"
        /\ NamesExpr(Step(emit).panic, emit.id)
    /\ At("br_table")
            /\ (\E b \in Range(Top.blocks) \cup {Top.default} : ~OnStack(b)) =>
        /\ Step(emit).status = "panicked"
        /\ NamesExpr(Step(emit).panic, emit.id)

(***************************************************************************)
(* Properties of the module's functions (specification SpecModule).        *)
(***************************************************************************)
\* the items of the arena, iterated in the order p of their positions
IteratedAs(p) == LET items == arena_iter(arena) IN [k \in 1..Len(p) |-> items[p[k]]]

LiveLocals ==
    {i \in DOMAIN arena.items : i \notin arena.dead /\ arena.items[i].kind.kind = "Local"}

Listed == phase \in {"func_section", "code_parallel", "emitted"}

\* used_local_functions has just returned, to emit_func_section or to emit
JustListed ==
    \/ phase = "func_section"
    \/ phase = "code_parallel" /\ \A i \in DOMAIN jobs : jobs[i].state = "pending"

\* C2: the list used_local_functions returns is ordered by size, largest first,
\* and among equal sizes by id, smallest first; it holds every live local
\* function once and no import; and it is the same list whatever the order in
\* which the arena hands out its items.
C2_UsedLocalFunctionsOrder ==
    Listed =>
        /\ \A i, j \in DOMAIN functions :
              i < j => \/ Len(functions[i].local.body) > Len(functions[j].local.body)
                       \/ /\ Len(functions[i].local.body) = Len(functions[j].local.body)
                          /\ functions[i].id < functions[j].id
        /\ {functions[i].id : i \in DOMAIN functions} = LiveLocals
        /\ Len(functions) = Cardinality(LiveLocals)
        /\ \A i \in DOMAIN functions :
              arena.items[functions[i].id].kind = Local(functions[i].local)
        /\ JustListed =>
              \A p \in Permutations(1..Len(arena_iter(arena))) :
                  used_local_functions_of(IteratedAs(p)).functions = functions

\* three local functions, two of a size, that the sort has moved
C2_Witness ==
    /\ phase = "func_section"
    /\ Len(functions) = 3
    /\ functions[1].size > functions[2].size
    /\ functions[2].size = functions[3].size
    /\ functions[1].id = 3

FunctionBytes(i) == emit_function(NewContext.indices, functions[i])

\* C3: once the code section is emitted its payload is the count of functions
\* and then each function's byte buffer, written as a byte vector, in the
\* order of used_local_functions, and each function's local maps are the ones
\* its own emission produced, whatever the order in which the workers started
\* and finished.
C3_CodeSectionOrder ==
    (phase = "emitted" /\ functions # <<>>) =>
        /\ cx.code_section =
              Leb128U(Len(functions))
              \o Flatten([i \in 1..Len(functions) |->
                            Leb128U(Len(FunctionBytes(i).wasm)) \o FunctionBytes(i).wasm])
        /\ DOMAIN cx.indices.locals = {functions[i].id : i \in DOMAIN functions}
        /\ DOMAIN cx.locals = {functions[i].id : i \in DOMAIN functions}
        /\ \A i \in DOMAIN functions :
              /\ cx.indices.locals[functions[i].id] = FunctionBytes(i).local_indices
              /\ cx.locals[functions[i].id] = FunctionBytes(i).used_locals

\* three functions of different bytes, the last of the list finished first
C3_Witness ==
    /\ phase = "emitted"
    /\ Len(functions) = 3
    /\ jobs[3].rank = 1
    /\ jobs[1].rank = 3
    /\ FunctionBytes(1).wasm # FunctionBytes(2).wasm
    /\ FunctionBytes(2).wasm # FunctionBytes(3).wasm
    /\ \E i \in DOMAIN functions : FunctionBytes(i).used_locals # {}

\* C10: when the emission of a function of the list fails, the code section
\* never holds more than the count of functions: no byte of the failed
\* function is appended to it, and the emission of the section does not finish.
C10_FailedFunctionAppendsNothing ==
    (\E i \in DOMAIN functions : Listed /\ FunctionBytes(i).panicked) =>
        /\ cx.code_section \in {<<>>, Leb128U(Len(functions))}
        /\ cx.indices.locals = <<>>
        /\ phase # "emitted"

\* the emission has ended in a panic: one worker had written bytes of its
\* function before it panicked, another had emitted its function whole
C10_Witness ==
    /\ phase = "aborted"
    /\ \E i, j \in DOMAIN jobs :
          /\ jobs[i].state = "done" /\ jobs[i].out.panicked /\ jobs[i].out.wasm # <<>>
          /\ jobs[j].state = "done" /\ ~jobs[j].out.panicked /\ jobs[j].out.wasm # <<>>
    /\ cx.code_section = Leb128U(Len(functions))

(***************************************************************************)
(* Properties of the parsing of functions (specification SpecParse).       *)
(***************************************************************************)
Live(a) == {i \in DOMAIN a.items : i \notin a.dead}

\* C11: when parse_local_functions has failed, no function of the module holds
\* a parsed body: none has kind Local.
C11_NoPartialIR ==
    phase = "parse_failed" => \A i \in Live(arena) : arena.items[i].kind.kind # "Local"

RECURSIVE SumOfHalves(_, _)
\* the halves of the counts of the runs added up, over the integers
SumOfHalves(runs, half) ==
    IF runs = <<>> THEN 0 ELSE Head(runs).count[half] + SumOfHalves(Tail(runs), half)

\* the sum of the counts of the runs, over the integers, is above 2^32 - 1
Exceeds(runs) ==
    SumOfHalves(runs, "hi") + (SumOfHalves(runs, "lo") \div Half) >= Half

\* the sum of the counts is 2^32 - 1 exactly
SumsToMax(runs) ==
    /\ SumOfHalves(runs, "hi") + (SumOfHalves(runs, "lo") \div Half) = Half - 1
    /\ SumOfHalves(runs, "lo") % Half = Half - 1

Parsing == call.op = "parse_local_functions"

SkipsDeleted ==
    /\ Listed =>
          /\ \A i \in DOMAIN functions : functions[i].id \notin arena.dead
          /\ Range(cx.indices.funcs) \cap arena.dead = {}
          /\ cx.func_section =
                IF LiveLocals = {} THEN <<>>
                ELSE Leb128U(Cardinality(LiveLocals))
                     \o Flatten([i \in 1..Len(functions) |->
                                    Leb128U(get_type_index(cx.indices,
                                                           functions[i].local.ty))])
    /\ phase = "emitted" =>
          /\ DOMAIN cx.locals \cap arena.dead = {}
          /\ DOMAIN cx.indices.locals \cap arena.dead = {}
          /\ LiveLocals # {} =>
                SubSeq(cx.code_section, 1, 1) = Leb128U(Cardinality(LiveLocals))

\* a step keeps every slot: a deleted id stays deleted and its slot is not
\* given out again, every other id names the function it named before, and a
\* new function gets the id after the last slot
KeepsSlots ==
    /\ \A id \in DOMAIN arena.items :
          /\ id \in DOMAIN arena'.items
          /\ arena'.items[id].id = id
          /\ id \in arena.dead => id \in arena'.dead
          /\ id \notin arena'.dead => arena'.items[id] = arena.items[id]
    /\ \A id \in DOMAIN arena'.items \ DOMAIN arena.items :
          id = Len(arena.items) + 1 /\ id \notin arena'.dead

\* C13: through any sequence of add_import, add_local and delete, a deleted
\* function keeps its slot, so that the other ids go on naming the same
\* functions and no function allocated later gets its id; and the deleted
\* function is in neither the function section nor the code section emitted.
C13_DeletedSlotKept == [][KeepsSlots /\ SkipsDeleted']_vars

\* a module emitted after its first function was deleted and another added
C13_Witness ==
    /\ phase = "emitted"
    /\ arena.dead = {1}
    /\ Len(arena.items) = 3
    /\ Cardinality(LiveLocals) = 2
    /\ cx.code_section # <<>>

(***************************************************************************)
(* Properties of memory accesses and operands (specification Spec).        *)
(***************************************************************************)
AccessTags == {"Load", "Store", "AtomicRmw", "Cmpxchg", "AtomicNotify", "AtomicWait"}

\* the opcode bytes of a memory access
AccessOpcode(e) ==
    CASE e.tag = "Load" -> LoadOpcode(e.kind)
      [] e.tag = "Store" -> StoreOpcode(e.kind)
      [] e.tag = "AtomicRmw" -> RmwOpcode(e.op, e.width)
      [] e.tag = "Cmpxchg" -> CmpxchgOpcode(e.width)
      [] e.tag = "AtomicNotify" -> <<254, 0>>
      [] e.tag = "AtomicWait" -> <<254, IF e.sixty_four THEN 2 ELSE 1>>

\* the k of an alignment 2^k
Exponent(align) == CHOOSE k \in 0..30 : 2 ^ k = align

EndsWith(bytes, tail) ==
    /\ Len(bytes) >= Len(tail)
    /\ SubSeq(bytes, Len(bytes) - Len(tail) + 1, Len(bytes)) = tail

\* C14: the MemArg of a load, store, atomic rmw, cmpxchg, wait or notify is
\* written right after the opcode of the access: the exponent k of its stored
\* alignment 2^k, then its offset, both as unsigned LEB128.
C14_MemArgEncoding ==
    [][VisitMemArg =>
        LET e == func[emit.id]
        IN /\ e.tag \in AccessTags
           /\ EndsWith(emit.encoder, AccessOpcode(e))
           /\ get_memory_index(emit.indices, e.memory) = 0 =>
                 emit'.encoder = emit.encoder \o Leb128U(Exponent(e.arg.align))
                                              \o Leb128U(e.arg.offset)]_vars

\* a cmpxchg of alignment 4 and of offset 0 has been emitted whole:
\* its three operands, fe 48, the exponent 2, the offset 0
C14_Witness ==
    /\ emit.status = "done"
    /\ Len(func) = 5
    /\ func[2] = Cmpxchg("I32", 1, 3, 4, 5, MemArg(4, 0))
    /\ emit.encoder = <<65, 1, 65, 2, 65, 3, 254, 72, 2, 0, 11>>

OperandTags == {"Binop", "Store", "Call", "CallIndirect", "BrIf", "Return"}

\* the operands of an expression in the order the stack machine takes them
ExecutionOrder(e) ==
    CASE e.tag = "Binop" -> <<e.lhs, e.rhs>>
      [] e.tag = "Store" -> <<e.address, e.value>>
      [] e.tag = "Call" -> e.args
      [] e.tag = "CallIndirect" -> Append(e.args, e.func)
      [] e.tag = "BrIf" -> Append(e.args, e.condition)
      [] e.tag = "Return" -> e.values

\* (return (i32.add (local.get 0) (local.get 0))), scenario 1 of the spec
ReturnScenario ==
    <<Block("FunctionEntry", <<>>, <<2>>), Return(<<3>>), Binop("I32Add", 4, 5),
      LocalGet(1), LocalGet(1)>>

\* C15: an expression with operands is written as the bytes of its operands, each
\* whole and in the order of execution (Binop: lhs, rhs; Store: address, value;
\* Call: the arguments; CallIndirect: the arguments, the callee; BrIf: the
\* arguments, the condition; Return: the values), and only then its own opcode;
\* (return (i32.add (local.get 0) (local.get 0))) emits 20 00 20 00 6a 0f 0b.
C15_OperandsBeforeOpcode ==
    /\ At("visit") /\ func[Top.expr].tag \in OperandTags =>
          LET e == func[Top.expr]
              here == [emit EXCEPT !.id = Top.expr]
              whole == EmittedBy(emit, <<Visit(Top.expr)>>)
              ops == ExecutionOrder(e)
              before == Flatten([i \in 1..Len(ops) |-> ExprBytes(here, ops[i])])
              first == CASE e.tag = "Binop" -> IF e.op = "I32Add" THEN 106 ELSE 107
                         [] e.tag = "Store" -> Head(StoreOpcode(e.kind))
                         [] e.tag = "Call" -> 16
                         [] e.tag = "CallIndirect" -> 17
                         [] e.tag = "BrIf" -> 13
                         [] e.tag = "Return" -> 15
          IN whole.status = "done" =>
                /\ Len(whole.encoder) > Len(before)
                /\ SubSeq(whole.encoder, 1, Len(before)) = before
                /\ whole.encoder[Len(before) + 1] = first
    /\ func = ReturnScenario /\ emit.status = "done" =>
          emit.encoder = <<32, 0, 32, 0, 106, 15, 11>>

\* a store whose value is a sum has been emitted: the address, the two operands
\* of the sum and its opcode, then the opcode of the store
C15_Witness ==
    /\ emit.status = "done"
    /\ Len(func) = 6
    /\ func[2].tag = "Store"
    /\ func[3] = LocalGet(2) /\ func[5] = Const(1)
    /\ emit.encoder = <<32, 1, 65, 1, 32, 1, 106, 54, 2, 0, 11>>

C17_PreludeThenBody ==
    \A i \in DOMAIN jobs :
        (phase \in {"code_parallel", "emitted", "aborted"}
            /\ jobs[i].state = "done" /\ ~jobs[i].out.panicked) =>
            LET l == functions[i].local
                prelude == emit_locals(l, <<>>)
                body == emit_instructions(l.body, cx.indices, prelude.local_indices, <<>>)
                wasm == jobs[i].out.wasm
            IN /\ body.status = "done"
               /\ wasm = prelude.encoder \o body.encoder
               /\ prelude.encoder # <<>>
               /\ wasm[Len(wasm)] = 11
               /\ l.body[entry_block(l.body)].kind = "FunctionEntry"

\* the function of one parameter and one i64 local has been emitted: one run
\* of one i64, then local.get 1, drop, end
C17_Witness ==
    /\ phase = "emitted"
    /\ \E i \in DOMAIN jobs : jobs[i].out.wasm = <<1, 1, 126, 32, 1, 26, 11>>

(***************************************************************************)
(* Properties of the order of parsing (specification SpecParse).           *)
(***************************************************************************)
\* the spans registered for function id
LocalsOf(id) ==
    IF id \in DOMAIN indices_to_ids.locals THEN indices_to_ids.locals[id] ELSE <<>>

\* the locals of a body handed to the parallel parse are all there: a local
\* for each parameter, in order, and then the declared runs, in order
LocalsRegistered(b) ==
    LET params == TypeParams[b.ty]
        spans == LocalsOf(b.id)
        np == Len(params)
    IN /\ Len(spans) = np + Len(b.body.locals)
       /\ b.args = SubSeq(spans, 1, np)
       /\ \A k \in 1..Len(spans) :
             /\ module.locals[spans[k]].owner = b.id
             /\ k < Len(spans) => spans[k] < spans[k + 1]
       /\ \A k \in 1..np :
             /\ module.locals[spans[k]].ty = params[k]
             /\ module.locals[spans[k]].count = U32(0, 1)
       /\ \A k \in 1..Len(b.body.locals) :
             /\ module.locals[spans[np + k]].ty = b.body.locals[k].ty
             /\ module.locals[spans[np + k]].count = b.body.locals[k].count

SerialBeforeParallel ==
    (Parsing /\ phase # "parse_serial" /\ Len(call.bodies) = Len(call.section)) =>
        \A k \in DOMAIN call.bodies : LocalsRegistered(call.bodies[k])

\* a step creates or registers a local only in the serial loop, leaves the
\* arena alone in the serial loop and while workers parse, and changes a kind
\* only once every worker has finished
FrozenWhileParsing ==
    /\ (module' # module \/ indices_to_ids' # indices_to_ids)
          => phase \in {"function_section", "parse_serial"}
    /\ phase = "parse_serial" => arena' = arena
    /\ (phase = "parse_parallel" /\ arena' # arena)
          => /\ \A k \in DOMAIN jobs : jobs[k].state = "done"
             /\ phase' # "parse_parallel"

\* C18: every local of every function, its parameters first and in order, then
\* its declared locals, is created and registered in the serial loop, before
\* the parallel parse of the bodies starts; while the workers parse, no local is
\* created and no kind is changed, and the kinds are set only after all
\* workers have finished.
C18_LocalsCreatedSerially == [][FrozenWhileParsing /\ SerialBeforeParallel']_vars

\* two workers parse, one done and one at work, with the locals of both
\* functions registered: a parameter and two runs for the first
C18_Witness ==
    /\ phase = "parse_parallel"
    /\ Len(jobs) = 2
    /\ jobs[1].state = "running" /\ jobs[2].state = "done"
    /\ Len(LocalsOf(call.bodies[1].id)) = 3
    /\ Len(call.bodies[1].args) = 1
    /\ \A i \in Live(arena) : arena.items[i].kind.kind # "Local"

(***************************************************************************)
(* Properties of the lookup by name (specification SpecNames).             *)
(***************************************************************************)
\* the live functions of the name
Named(name) == {i \in Live(arena) : arena.items[i].name = Some(name)}

\* C19: by_name returns the first live function, in the order of the arena,
\* whose name is the argument, and None when no live function has the name; a
\* deleted function is never returned.
C19_ByNameFirstLive ==
    phase = "by_name" =>
        /\ Named(result.name) = {} => result.value = None
        /\ Named(result.name) # {} =>
              /\ result.value # None
              /\ result.value[1] \in Named(result.name)
              /\ \A i \in Named(result.name) : result.value[1] <= i
        /\ \A d \in arena.dead : result.value # Some(d)

\* two live functions have the name looked up, after the first of the name was
\* deleted: the second function of the arena is returned
C19_Witness ==
    /\ phase = "by_name"
    /\ arena.dead = {1}
    /\ Named(result.name) = {2, 3}
    /\ result.value = Some(2)

(***************************************************************************)
(* Properties of the kinds of functions (specification SpecParse).         *)
(***************************************************************************)
\* from declare_local_functions until parse_local_functions has returned Ok
InWindow == phase \in {"code_section", "parse_serial", "parse_parallel", "parse_failed"}

C21_WithSideEffectsLayout ==
    At("visit") /\ func[Top.expr].tag = "WithSideEffects" =>
        LET e == func[Top.expr]
            here == [emit EXCEPT !.id = Top.expr]
            whole == EmittedBy(emit, <<Visit(Top.expr)>>)
            bytes(xs) == Flatten([i \in 1..Len(xs) |-> ExprBytes(here, xs[i])])
        IN whole.status = "done" =>
              whole.encoder = bytes(e.before) \o ExprBytes(here, e.value) \o bytes(e.after)

\* a WithSideEffects under a drop, two expressions before its value and two
\* after, has been emitted
C21_Witness ==
    /\ emit.status = "done"
    /\ Len(func) = 8
    /\ func[2].tag = "Drop"
    /\ func[3].tag = "WithSideEffects"
    /\ Len(func[3].before) = 2 /\ Len(func[3].after) = 2
    /\ emit.encoder = <<65, 1, 65, 2, 65, 3, 65, 4, 65, 5, 26, 11>>

\* C26: a Select is written as the bytes of its alternative, then of its
\* consequent, then of its condition, then the select opcode 0x1b.
C26_SelectLayout ==
    At("visit") /\ func[Top.expr].tag = "Select" =>
        LET e == func[Top.expr]
            here == [emit EXCEPT !.id = Top.expr]
            whole == EmittedBy(emit, <<Visit(Top.expr)>>)
        IN whole.status = "done" =>
              whole.encoder = ExprBytes(here, e.alternative)
                              \o ExprBytes(here, e.consequent)
                              \o ExprBytes(here, e.condition) \o <<27>>

\* a select of three operands that differ has been emitted: the condition is a
\* sum, the consequent local 1, the alternative local 2
C26_Witness ==
    /\ emit.status = "done"
    /\ Len(func) = 8
    /\ func[3].tag = "Select"
    /\ func[func[3].condition].tag = "Binop"
    /\ emit.encoder = <<32, 1, 32, 0, 65, 1, 65, 2, 106, 27, 26, 11>>

BulkTags == {"MemoryInit", "MemoryCopy", "MemoryFill"}

\* the expression about to be visited, the visitor with it as current expression,
\* and the visitor run on it alone
Visited == func[Top.expr]
VisitedHere == [emit EXCEPT !.id = Top.expr]
VisitedWhole == EmittedBy(emit, <<Visit(Top.expr)>>)

\* the operands of an operation on a memory, in the order they are visited
MemoryOperands(e) ==
    CASE e.tag = "Load" -> <<e.address>>
      [] e.tag \in {"Store", "AtomicRmw"} -> <<e.address, e.value>>
      [] e.tag = "Cmpxchg" -> <<e.address, e.expected, e.replacement>>
      [] e.tag = "AtomicNotify" -> <<e.address, e.count>>
      [] e.tag = "AtomicWait" -> <<e.address, e.expected, e.timeout>>
      [] e.tag = "MemorySize" -> <<>>
      [] e.tag = "MemoryGrow" -> <<e.pages>>
      [] e.tag = "MemoryInit" -> <<e.memory_offset, e.data_offset, e.len>>
      [] e.tag = "MemoryCopy" -> <<e.dst_offset, e.src_offset, e.len>>
      [] e.tag = "MemoryFill" -> <<e.offset, e.value, e.len>>

\* the wire indices of the memories an operation refers to, in the order the
\* emitter looks them up
WireIndices(e) ==
    IF e.tag = "MemoryCopy"
    THEN <<get_memory_index(emit.indices, e.src), get_memory_index(emit.indices, e.dst)>>
    ELSE <<get_memory_index(emit.indices, e.memory)>>

\* the opcode of a bulk memory operation, with the data index of memory.init
BulkOpcode(e) ==
    CASE e.tag = "MemoryInit" -> <<252, 8>> \o Leb128U(get_data_index(emit.indices, e.data))
      [] e.tag = "MemoryCopy" -> <<252, 10>>
      [] e.tag = "MemoryFill" -> <<252, 11>>

\* every operand of the visited expression is emitted whole
OperandsDone ==
    \A i \in DOMAIN MemoryOperands(Visited) :
        EmittedBy(VisitedHere, <<Visit(MemoryOperands(Visited)[i])>>).status = "done"

OperandBytes ==
    Flatten([i \in DOMAIN MemoryOperands(Visited) |->
                ExprBytes(VisitedHere, MemoryOperands(Visited)[i])])

MemArgBytes(arg) == Leb128U(Exponent(arg.align)) \o Leb128U(arg.offset)

\* a memory of wire index other than 0 fails the assertion, the first such
\* index on the left of the comparison
AssertsMemoryZero ==
    /\ At("visit")
    /\ Visited.tag \in AccessTags \cup BulkTags
    /\ OperandsDone
    /\ \E i \in DOMAIN WireIndices(Visited) : WireIndices(Visited)[i] # 0
    => LET ws == WireIndices(Visited)
           k == CHOOSE i \in DOMAIN ws : ws[i] # 0 /\ \A j \in 1..(i - 1) : ws[j] = 0
       IN /\ VisitedWhole.status = "panicked"
          /\ VisitedWhole.panic = [text |-> AssertEqMsg, args |-> <<ws[k], 0>>]

\* memory.init, memory.copy and memory.fill on memories of wire index 0 write
\* the index 0, once for each memory
BulkWritesZero ==
    /\ At("visit")
    /\ Visited.tag \in BulkTags
    /\ OperandsDone
    /\ \A i \in DOMAIN WireIndices(Visited) : WireIndices(Visited)[i] = 0
    => /\ VisitedWhole.status = "done"
       /\ VisitedWhole.encoder =
             OperandBytes \o BulkOpcode(Visited)
             \o Flatten([i \in DOMAIN WireIndices(Visited) |-> Leb128U(0)])

\* a load, store or atomic operation on a memory of wire index 0 writes the
\* MemArg after its opcode, and no memory index
AccessWritesNoIndex ==
    /\ At("visit")
    /\ Visited.tag \in AccessTags
    /\ OperandsDone
    /\ WireIndices(Visited) = <<0>>
    => /\ VisitedWhole.status = "done"
       /\ VisitedWhole.encoder =
             OperandBytes \o AccessOpcode(Visited) \o MemArgBytes(Visited.arg)

\* a load, store or atomic operation on a memory of wire index 0 writes the
\* memory index 0 with its MemArg, before it or after it
AccessWritesZero ==
    /\ At("visit")
    /\ Visited.tag \in AccessTags
    /\ OperandsDone
    /\ WireIndices(Visited) = <<0>>
    => /\ VisitedWhole.status = "done"
       /\ VisitedWhole.encoder \in
             {OperandBytes \o AccessOpcode(Visited) \o Leb128U(0) \o MemArgBytes(Visited.arg),
              OperandBytes \o AccessOpcode(Visited) \o MemArgBytes(Visited.arg) \o Leb128U(0)}

\* memory.size and memory.grow write the wire index of their memory, whatever
\* it is
SizeGrowUnchecked ==
    /\ At("visit")
    /\ Visited.tag \in {"MemorySize", "MemoryGrow"}
    /\ OperandsDone
    => /\ VisitedWhole.status = "done"
       /\ VisitedWhole.encoder =
             OperandBytes \o <<IF Visited.tag = "MemorySize" THEN 63 ELSE 64>>
             \o Leb128U(WireIndices(Visited)[1])

\* C27, as stated: a load, store, atomic operation, memory.init, memory.copy or
\* memory.fill fails an assertion when a memory it refers to has a wire index
\* other than 0, and otherwise writes the memory index 0; memory.size and
\* memory.grow write the wire index of their memory without the assertion.
C27_MemoryIndexWritten ==
    AssertsMemoryZero /\ BulkWritesZero /\ AccessWritesZero /\ SizeGrowUnchecked

\* C27: a load, store, atomic operation, memory.init, memory.copy or
\* memory.fill fails an assertion when a memory it refers to has a wire index
\* other than 0; otherwise memory.init, memory.copy and memory.fill write the
\* index 0 for each memory, and a load, store or atomic operation writes its
\* MemArg and no memory index; memory.size and memory.grow write the wire index
\* of their memory without the assertion.
C27_MemoryIndexZero ==
    AssertsMemoryZero /\ BulkWritesZero /\ AccessWritesNoIndex /\ SizeGrowUnchecked

\* a memory.copy from the memory of wire index 0 to the memory of wire index 1
\* has failed the assertion on its second memory, the first index written
C27_Witness ==
    /\ emit.status = "panicked"
    /\ func[2].tag = "MemoryCopy"
    /\ emit.panic = [text |-> AssertEqMsg, args |-> <<1, 0>>]
    /\ emit.encoder = <<65, 1, 65, 2, 65, 3, 252, 10, 0>>

\* the expressions an expression holds, in the order they are visited
Kids(e) ==
    CASE e.tag = "Block" -> e.exprs
      [] e.tag = "IfElse" -> <<e.condition, e.consequent, e.alternative>>
      [] e.tag = "Br" -> e.args
      [] e.tag = "BrTable" -> Append(e.args, e.which)
      [] e.tag = "Drop" -> <<e.expr>>
      [] e.tag = "WithSideEffects" -> e.before \o <<e.value>> \o e.after
      [] e.tag = "Select" -> <<e.alternative, e.consequent, e.condition>>
      [] e.tag \in OperandTags -> ExecutionOrder(e)
      [] e.tag \in AccessTags \cup BulkTags \cup {"MemorySize", "MemoryGrow"} ->
            MemoryOperands(e)
      [] OTHER -> <<>>

RECURSIVE EnclosingBlocks(_)
\* the blocks that enclose an expression of the body, the FunctionEntry block
\* first, the nearest last
EnclosingBlocks(id) ==
    IF id = entry_block(func) THEN <<>>
    ELSE LET p == CHOOSE q \in DOMAIN func : id \in Range(Kids(func[q]))
         IN EnclosingBlocks(p) \o (IF func[p].tag = "Block" THEN <<p>> ELSE <<>>)

\* C24: the stack of open blocks is balanced.  The visit of a block pushes the
\* id of that block and nothing else, the end of the visit pops that same id,
\* and no other step touches the stack; at every moment the stack is the chain
\* of the blocks enclosing the current expression, from the FunctionEntry block
\* down, with the current expression on top while it is an open block; a visit
\* that returns leaves the current id and the stack as it found them; and the
\* stack is empty when the emission of the function completes.
C24_BlockStackBalanced ==
    /\ At("visit") /\ func[Top.expr].tag = "Block" =>
          Step(emit).blocks = Append(emit.blocks, Top.expr)
    /\ At("end_block") =>
          /\ emit.blocks # <<>>
          /\ emit.blocks[Len(emit.blocks)] = emit.id
          /\ Step(emit).blocks = SubSeq(emit.blocks, 1, Len(emit.blocks) - 1)
    /\ emit.status = "running"
       /\ ~At("end_block") /\ ~(At("visit") /\ func[Top.expr].tag = "Block") =>
          Step(emit).blocks = emit.blocks
    /\ emit.blocks \in
          {EnclosingBlocks(emit.id)}
          \cup (IF func[emit.id].tag = "Block"
                THEN {Append(EnclosingBlocks(emit.id), emit.id)} ELSE {})
    /\ At("visit") =>
          LET whole == Exec([emit EXCEPT !.stack = <<Visit(Top.expr)>>])
          IN whole.status = "done" =>
                whole.id = emit.id /\ whole.blocks = emit.blocks
    /\ emit.status = "done" => emit.blocks = <<>> /\ emit.id = entry_block(func)

\* a branch is about to be written under two nested blocks: the stack holds
\* the FunctionEntry block and the two blocks, outermost first
C24_Witness ==
    /\ At("br")
    /\ emit.blocks = <<1, 2, 3>>
    /\ func[emit.id].tag = "Br"
    /\ func[2].exprs = <<3>> /\ func[3].exprs = <<4>>

RECURSIVE SkipLeb(_, _)
\* the position after the LEB128 integer that starts at position i
SkipLeb(b, i) == IF b[i] >= 128 THEN SkipLeb(b, i + 1) ELSE i + 1

RECURSIVE SkipLebs(_, _, _)
\* the position after n LEB128 integers
SkipLebs(b, i, n) == IF n = 0 THEN i ELSE SkipLebs(b, SkipLeb(b, i), n - 1)

RECURSIVE LebValue(_, _)
\* the unsigned LEB128 integer that starts at position i
LebValue(b, i) ==
    IF b[i] >= 128 THEN (b[i] - 128) + 128 * LebValue(b, i + 1) ELSE b[i]

RECURSIVE OpcodesFrom(_, _)
\* the opcodes of an instruction stream read from position i, each without its
\* immediates (a prefixed opcode counts as its prefix byte)
OpcodesFrom(b, i) ==
    IF i > Len(b) THEN <<>>
    ELSE LET op == b[i]
             next ==
                CASE op \in {2, 3, 4} -> i + 2
                  [] op \in {12, 13, 16, 32, 63, 64, 65} -> SkipLebs(b, i + 1, 1)
                  [] op = 14 -> SkipLebs(b, i + 1, LebValue(b, i + 1) + 2)
                  [] op = 17 -> SkipLebs(b, i + 1, 2)
                  [] op \in {40, 41, 54, 55, 58} -> SkipLebs(b, i + 1, 2)
                  [] op = 252 -> SkipLebs(b, i + 2, IF b[i + 1] = 11 THEN 1 ELSE 2)
                  [] op = 254 -> SkipLebs(b, i + 2, 2)
                  [] OTHER -> i + 1
         IN <<op>> \o OpcodesFrom(b, next)

Opcodes(b) == OpcodesFrom(b, 1)

\* how many of the first k opcodes are in S
CountIn(ops, k, S) == Cardinality({i \in 1..k : ops[i] \in S})

\* C25: the instruction stream of a function body is well bracketed.  Counting
\* opcodes, every proper prefix of the stream has at most as many end opcodes as
\* block, loop and if opcodes, the complete stream has exactly one end more than
\* it has block, loop and if opcodes, and it has as many else opcodes as if
\* opcodes.
C25_WellBracketed ==
    emit.status = "done" =>
        LET ops == Opcodes(emit.encoder)
            n == Len(ops)
        IN /\ \A k \in 0..(n - 1) : CountIn(ops, k, {11}) <= CountIn(ops, k, {2, 3, 4})
           /\ CountIn(ops, n, {11}) = CountIn(ops, n, {2, 3, 4}) + 1
           /\ CountIn(ops, n, {5}) = CountIn(ops, n, {4})

\* (i32.const 1) (if (then (drop (i32.const 2)))) has been emitted: a constant
\* of the stream is the byte of the block opcode, and is not counted
C25_Witness ==
    /\ emit.status = "done"
    /\ func = IfScenario
    /\ emit.encoder = <<65, 1, 4, 64, 65, 2, 26, 5, 11, 11>>
    /\ Opcodes(emit.encoder) = <<65, 4, 65, 26, 5, 11, 11>>

(***************************************************************************)
(* Properties of the sections, continued (specification SpecModule).       *)
(***************************************************************************)
\* the entry of the list of local functions for the function of an id
ListedAs(id) == CHOOSE f \in Range(functions) : f.id = id

\* C22: the function section and the code section list the same local
\* functions in the same order.  The wire indices are given by push_func in
\* the order of the function section, during its emission and before any body
\* is emitted; the k-th type index of the function section is the type of the
\* function of wire index k and the k-th body of the code section is the body
\* of that same function; and both counts are the number of live local
\* functions (with none, neither section is written).
C22_SectionsAgree ==
    /\ Listed =>
          /\ cx.indices.funcs = [k \in 1..Len(functions) |-> functions[k].id]
          /\ Len(cx.indices.funcs) = Cardinality(LiveLocals)
          /\ cx.func_section =
                IF LiveLocals = {} THEN <<>>
                ELSE Leb128U(Cardinality(LiveLocals))
                     \o Flatten([k \in 1..Len(cx.indices.funcs) |->
                           Leb128U(get_type_index(cx.indices,
                               arena.items[cx.indices.funcs[k]].kind.local.ty))])
    /\ phase = "func_section" => cx.code_section = <<>> /\ jobs = <<>>
    /\ phase = "edit" => cx.indices.funcs = <<>> /\ cx.func_section = <<>>
    /\ phase = "emitted" =>
          cx.code_section =
             IF LiveLocals = {} THEN <<>>
             ELSE Leb128U(Cardinality(LiveLocals))
                  \o Flatten([k \in 1..Len(cx.indices.funcs) |->
                        encoder_bytes(
                            emit_function(cx.indices, ListedAs(cx.indices.funcs[k])).wasm)])

\* both sections are written for three functions of two types that the sort
\* has moved: the function added last has the first wire index
C22_Witness ==
    /\ phase = "emitted"
    /\ cx.indices.funcs = <<3, 1, 2>>
    /\ cx.func_section = <<3, 1, 0, 0>>
    /\ arena.dead = {}

(***************************************************************************)
(* Properties of the parsing of functions, continued (SpecParse).          *)
(***************************************************************************)
\* C23: parse_local_functions called with a code section whose count of entries
\* differs from the count of the function section returns the error of the
\* counts, and leaves the module as it was: no local is created, no function
\* changes, no index is given; called with equal counts it does not return
\* that error.
C23_CountMismatchRefused ==
    [][phase = "code_section" /\ phase' # "code_section" =>
        /\ call'.op \in {"parse_refused", "parse_local_functions"}
        /\ Len(call'.section) # call.function_section_count =>
              /\ result' = Err([text |-> CountMismatchMsg])
              /\ phase' = "parse_failed"
              /\ arena' = arena
              /\ module' = module
              /\ indices_to_ids' = indices_to_ids
        /\ Len(call'.section) = call.function_section_count =>
              /\ result' # Err([text |-> CountMismatchMsg])
              /\ phase' # "parse_failed"]_vars

\* a code section of two bodies has been refused after a function section of
\* one function: the function declared is as declare_local_functions left it
C23_Witness ==
    /\ phase = "parse_failed"
    /\ call.op = "parse_refused"
    /\ Len(call.section) = 2
    /\ call.function_section_count = 1
    /\ result = Err([text |-> CountMismatchMsg])
    /\ module.locals = <<>>
    /\ arena.items[Len(arena.items)].kind.kind = "Uninitialized"

====
